---- MODULE Spec2Model ----
(***************************************************************************)
(* Model of the WiFi-QR sticker generator (Yarexsi/qr-wifi-cliente).       *)
(*                                                                         *)
(*   Spec          the layout fitter of buildWifiStickerPng: the packing   *)
(*                 loop, the final placement and the draw, for the         *)
(*                 portrait build (600x1000 base rotated to 1000x600) and  *)
(*                 the landscape build (1000x600 drawn directly).          *)
(*   DownloadSpec  handleDownload: the shared printIndex / hidden QR       *)
(*                 canvas, the 160 ms deferred capture, the image loads    *)
(*                 of buildWifiStickerPng and the file download.           *)
(*   RerenderSpec  Spec with buildWifiStickerPng called again on the same  *)
(*                 inputs.                                                 *)
(*   FitSpec       fitTextSize applied to one text at two widths.          *)
(*   RotSpec       rotateCanvas90CWTo applied to a bitmap, pixel by pixel. *)
(*   BoundsSpec    getBackgroundBoundsFromImage applied to an image.       *)
(*   ThrowSpec     handleDownload when triggering the download throws,     *)
(*                 with and without the try/finally.                       *)
(*   SanSpec       sanitizeNumericDot applied to one string.               *)
(*   FormSpec      the form: edits, Agregar, Quitar.                       *)
(*   GenSpec       generateValue on the item stored for a typed form.      *)
(*   WaitSpec      waitForAllImages: the call, image events, the timeout.  *)
(*   PrintSpec     printStickerHtml: the sticker window's script and the   *)
(*                 caller's wait, on the popup and the iframe path.        *)
(*                                                                         *)
(* A task of the browser's event loop (a click, a timer, an image event)    *)
(* together with the promise continuations it releases is one action.      *)
(*                                                                         *)
(* JavaScript numbers that can be NaN (sizes derived from an image whose   *)
(* height is 0) are integers or the value NaN; arithmetic and comparisons  *)
(* on them follow IEEE-754 (NaN propagates, every comparison is false).    *)
(* Text is represented by its character count; its measured width is       *)
(* count * sizePx * em / 1000 for an average advance `em` (per mille of    *)
(* the font size) that is an input of the run.                             *)
(***************************************************************************)
EXTENDS Integers, Sequences, FiniteSets, TLC

VARIABLES
    \* ---- layout fitter (one run of buildWifiStickerPng after its images loaded)
    build,          \* "portrait" | "landscape": which build of the page runs
    logoImg,        \* [w, h] natural size of /logo-red7-dark.png
    wifiImg,        \* [w, h] natural size of the footer icon
    passLen,        \* character count of passText
    ssidLen,        \* character count of ssidText
    netLen,         \* character count of netText
    em,             \* average glyph advance, per mille of the font size
    pc,             \* "pack" | "draw" | "rotate" | "returned" | "off"
    i,              \* packing-loop counter
    qrSize,
    gapQrText,
    passStartPx,
    ssidStartPx,
    netStartPx,
    brokeOut,       \* the loop was left through `break`
    lastFit,        \* sizes/positions computed by the latest loop iteration
    drawn,          \* what was painted: tops and heights of the six items
    result,         \* the returned PNG: [w, h, rotated]; NullCanvas before the return
    \* ---- the page: list of items, hidden QR canvas and download requests
    qrs,            \* useState([]): the stored items
    printIndex,     \* useState(null): index whose QR the hidden canvas shows
    reqs,           \* one record per handleDownload call
    downloads,      \* the files handed to the browser, in order
    \* ---- one application of a pure function: its inputs, then its result
    fitRun,         \* fitTextSize at two available widths
    rotRun,         \* rotateCanvas90CWTo on a bitmap
    boundsRun,      \* getBackgroundBoundsFromImage on an image
    \* ---- what the previous call of buildWifiStickerPng ended with
    prevRun,
    \* ---- the rest of the page
    form,           \* the inputs of the form and the error message
    handlerBuild,   \* which handleDownload runs: with or without try/finally
    sanRun,         \* one call of sanitizeNumericDot
    waitRun,        \* one call of waitForAllImages
    printRun        \* one call of printStickerHtml

layoutVars == <<build, logoImg, wifiImg, passLen, ssidLen, netLen, em, pc, i,
                qrSize, gapQrText, passStartPx, ssidStartPx, netStartPx,
                brokeOut, lastFit, drawn, result>>

pageVars == <<qrs, printIndex, reqs, downloads>>

pureVars == <<fitRun, rotRun, boundsRun>>

uiVars == <<form, handlerBuild, sanRun, waitRun, printRun>>

vars == <<layoutVars, pageVars, pureVars, prevRun, uiVars>>

----------------------------------------------------------------------------
(* JavaScript number semantics *)

NaN == -1000000

IsNaN(x) == x = NaN

jsAdd(a, b) == IF IsNaN(a) \/ IsNaN(b) THEN NaN ELSE a + b

jsSub(a, b) == IF IsNaN(a) \/ IsNaN(b) THEN NaN ELSE a - b

jsGe(a, b) == ~IsNaN(a) /\ ~IsNaN(b) /\ a >= b

jsLe(a, b) == ~IsNaN(a) /\ ~IsNaN(b) /\ a <= b

\* Math.max(a, b)
jsMax(a, b) == IF IsNaN(a) \/ IsNaN(b) THEN NaN ELSE IF a >= b THEN a ELSE b

\* Math.round(num / den) for num >= 0, den > 0 (round half up)
jsRound(num, den) == (2 * num + den) \div (2 * den)

----------------------------------------------------------------------------
(* Constants of the two builds *)

LABEL_OUT_PX == [w |-> 1000, h |-> 600]

\* makeStickerCanvas: the portrait base swaps the output dimensions
makeStickerCanvas(rotate) ==
    IF ~rotate THEN [w |-> LABEL_OUT_PX.w, h |-> LABEL_OUT_PX.h]
    ELSE [w |-> LABEL_OUT_PX.h, h |-> LABEL_OUT_PX.w]

PortraitCfg ==
    [rotate |-> TRUE,
     labelW |-> makeStickerCanvas(TRUE).w, labelH |-> makeStickerCanvas(TRUE).h,
     padX |-> 55, padTop |-> 55, padBottom |-> 55,
     wifiTargetH |-> 56, logoTargetH |-> 92,
     qrSize0 |-> 440, passStartPx0 |-> 88, ssidStartPx0 |-> 56, netStartPx0 |-> 74,
     gapLogoQr |-> 22, gapQrText0 |-> 38, gapPassSsid |-> 6, gapSsidNet |-> 4,
     gapNetFooter |-> 14,
     passMinPx |-> 42, ssidMinPx |-> 28, netMinPx |-> 34,
     qrFloor |-> 360, qrStep |-> 12, gapFloor |-> 26, gapStep |-> 4,
     passStartFloor |-> 60, passStep |-> 4,
     ssidStartFloor |-> 40, ssidStep |-> 3,
     netStartFloor |-> 52, netStep |-> 3]

LandscapeCfg ==
    [rotate |-> FALSE,
     labelW |-> LABEL_OUT_PX.w, labelH |-> LABEL_OUT_PX.h,
     padX |-> 50, padTop |-> 34, padBottom |-> 34,
     wifiTargetH |-> 40, logoTargetH |-> 58,
     qrSize0 |-> 360, passStartPx0 |-> 74, ssidStartPx0 |-> 46, netStartPx0 |-> 64,
     gapLogoQr |-> 14, gapQrText0 |-> 26, gapPassSsid |-> 4, gapSsidNet |-> 2,
     gapNetFooter |-> 10,
     passMinPx |-> 34, ssidMinPx |-> 24, netMinPx |-> 28,
     qrFloor |-> 310, qrStep |-> 12, gapFloor |-> 26, gapStep |-> 4,
     passStartFloor |-> 52, passStep |-> 4,
     ssidStartFloor |-> 34, ssidStep |-> 3,
     netStartFloor |-> 44, netStep |-> 3]

Cfg == IF build = "portrait" THEN PortraitCfg ELSE LandscapeCfg

\* the loop written with one iteration fewer
LoopBoundShort == 18 - 1

\* the loop condition written i <= 18
LoopBoundOffByOne == 18 + 1

LoopBound == 18

----------------------------------------------------------------------------
(* Inputs of a run *)

Builds == {"portrait", "landscape"}

\* natural sizes of the logo: a 4:1 logo, a wide banner, a very wide strip,
\* and an image that decoded with no intrinsic size
LogoSizes == {[w |-> 400, h |-> 100], [w |-> 3000, h |-> 100],
              [w |-> 9000, h |-> 50], [w |-> 0, h |-> 0]}

\* natural sizes of the footer icon: square, and an SVG reporting height 0
WifiSizes == {[w |-> 64, h |-> 64], [w |-> 100, h |-> 0]}

\* character counts: "", "5.0", "OPEN", "hunter2", "Red_Cliente_23", 80 chars
PassLens == {0, 4, 7, 80}

SsidLens == {0, 14, 80}

NetLens == {0, 3}

EmSet == {450, 600, 750}

----------------------------------------------------------------------------
(* Text measurement and fitting *)

\* measureText taken to fail the test for a text without glyphs
TextFitsNonEmpty(len, weight, sizePx, maxWidth) ==
    len > 0 /\ len * sizePx * em <= maxWidth * 1000

\* the width test with its comparison turned around
TextFitsReversed(len, weight, sizePx, maxWidth) ==
    len * sizePx * em >= maxWidth * 1000

\* ctx.measureText(text).width <= maxWidth at the font set by setFont.
\* Weights 800 and 900 both select the bold face of Arial/Helvetica.
TextFits(len, weight, sizePx, maxWidth) ==
    len * sizePx * em <= maxWidth * 1000

\* fitTextSize returning its loop variable instead of minPx when nothing fits
RECURSIVE fitTextSizeNoFloor(_, _, _, _, _)
fitTextSizeNoFloor(len, maxWidth, weight, startPx, minPx) ==
    IF startPx > minPx
    THEN IF TextFits(len, weight, startPx, maxWidth)
         THEN startPx
         ELSE fitTextSizeNoFloor(len, maxWidth, weight, startPx - 2, minPx)
    ELSE startPx

\* fitTextSize stepping down by 1 instead of 2
RECURSIVE fitTextSizeStepOne(_, _, _, _, _)
fitTextSizeStepOne(len, maxWidth, weight, startPx, minPx) ==
    IF startPx > minPx
    THEN IF TextFits(len, weight, startPx, maxWidth)
         THEN startPx
         ELSE fitTextSizeStepOne(len, maxWidth, weight, startPx - 1, minPx)
    ELSE minPx

RECURSIVE fitTextSize(_, _, _, _, _)
fitTextSize(len, maxWidth, weight, startPx, minPx) ==
    IF startPx > minPx
    THEN IF TextFits(len, weight, startPx, maxWidth)
         THEN startPx
         ELSE fitTextSize(len, maxWidth, weight, startPx - 2, minPx)
    ELSE minPx

\* drawCenteredText drawing at startPx without fitting
drawCenteredTextNoFit(len, y, maxWidth, weight, startPx, minPx) ==
    [y |-> y, sizePx |-> startPx]

\* drawCenteredText: fits again, then fillText at y; returns the size drawn
drawCenteredText(len, y, maxWidth, weight, startPx, minPx) ==
    [y |-> y, sizePx |-> fitTextSize(len, maxWidth, weight, startPx, minPx)]

----------------------------------------------------------------------------
(* Sizes fixed before the packing loop *)

maxTextW == Cfg.labelW - Cfg.padX * 2

\* wifiH = Math.round(wifiImg.height * (wifiTargetH / wifiImg.height))
wifiH ==
    IF wifiImg.h = 0 THEN NaN
    ELSE jsRound(wifiImg.h * Cfg.wifiTargetH, wifiImg.h)

\* logoH = Math.round(logoImg.height * Math.min(logoMaxW / w, logoTargetH / h))
logoH ==
    LET logoMaxW == Cfg.labelW - Cfg.padX * 2
        w == logoImg.w
        h == logoImg.h
    IN  IF w = 0 /\ h = 0 THEN NaN
        ELSE IF w = 0 THEN jsRound(h * Cfg.logoTargetH, h)
        ELSE IF h = 0 THEN 0
        ELSE IF logoMaxW * h <= Cfg.logoTargetH * w
             THEN jsRound(h * logoMaxW, w)
             ELSE jsRound(h * Cfg.logoTargetH, h)

availH == Cfg.labelH - Cfg.padTop - Cfg.padBottom

footerTop == jsSub(Cfg.labelH - Cfg.padBottom, wifiH)

\* the three text lines stacked bottom-up above the footer icon
TextStack(footer, passPx, ssidPx, netPx) ==
    LET netTop  == jsSub(jsSub(footer, Cfg.gapNetFooter), netPx)
        ssidTop == jsSub(jsSub(netTop, Cfg.gapSsidNet), ssidPx)
        passTop == jsSub(jsSub(ssidTop, Cfg.gapPassSsid), passPx)
    IN  [netTop |-> netTop, ssidTop |-> ssidTop, passTop |-> passTop]

\* the break test with its condition negated
fitTestNegated(fits, required) == ~(fits /\ jsLe(required, availH))

\* `if (fits && required <= availH) break;`
fitTest(fits, required) == fits /\ jsLe(required, availH)

\* body of one packing-loop iteration up to the fit test
LoopFit ==
    LET passPx == fitTextSize(passLen, maxTextW, 900, passStartPx, Cfg.passMinPx)
        ssidPx == fitTextSize(ssidLen, maxTextW, 800, ssidStartPx, Cfg.ssidMinPx)
        netPx  == fitTextSize(netLen, maxTextW, 900, netStartPx, Cfg.netMinPx)
        st     == TextStack(footerTop, passPx, ssidPx, netPx)
        qrTop  == jsAdd(jsAdd(Cfg.padTop, logoH), Cfg.gapLogoQr)
        fits   == /\ jsGe(st.passTop, jsAdd(jsAdd(qrTop, qrSize), gapQrText))
                  /\ jsLe(jsAdd(qrTop, qrSize),
                          jsSub(jsSub(footerTop, Cfg.gapNetFooter),
                                passPx + ssidPx + netPx
                                  + Cfg.gapPassSsid + Cfg.gapSsidNet))
        required == jsAdd(jsAdd(jsAdd(jsAdd(jsSub(qrTop, Cfg.padTop), qrSize),
                                      gapQrText),
                                jsSub(footerTop, st.passTop)),
                          wifiH)
    IN  [passPx |-> passPx, ssidPx |-> ssidPx, netPx |-> netPx,
         netTop |-> st.netTop, ssidTop |-> st.ssidTop, passTop |-> st.passTop,
         qrTop |-> qrTop, qrSize |-> qrSize, gapQrText |-> gapQrText,
         fits |-> fits, required |-> required,
         ok |-> fitTest(fits, required)]

NoFit == [passPx |-> 0, ssidPx |-> 0, netPx |-> 0,
          netTop |-> 0, ssidTop |-> 0, passTop |-> 0,
          qrTop |-> 0, qrSize |-> 0, gapQrText |-> 0,
          fits |-> FALSE, required |-> 0, ok |-> FALSE]

\* no canvas: null
NullCanvas == [w |-> 0, h |-> 0, rotated |-> FALSE]

NoDraw == [logoTop |-> 0, logoH |-> 0, qrTop |-> 0, qrSize |-> 0,
           passY |-> 0, passPx |-> 0, ssidY |-> 0, ssidPx |-> 0,
           netY |-> 0, netPx |-> 0, footerY |-> 0, wifiH |-> 0,
           gapQrText |-> 0, shiftUp |-> 0]

\* a bitmap: width, height and one value per pixel <<x, y>>
NoBitmap == [w |-> 0, h |-> 0, px |-> [p \in {} |-> 0]]

NoBounds == [x |-> 0, y |-> 0, w |-> 0, h |-> 0]

\* no pure function is being applied
NoFitRun == [phase |-> "off", len |-> 0, weight |-> 0, startPx |-> 0, minPx |-> 0,
             maxWidth1 |-> 0, maxWidth2 |-> 0, size1 |-> 0, size2 |-> 0]

NoRotRun == [phase |-> "off", src |-> NoBitmap, out |-> NoBitmap]

NoBoundsRun == [phase |-> "off", img |-> NoBitmap, env |-> "ok", result |-> NoBounds]

PureOff == fitRun = NoFitRun /\ rotRun = NoRotRun /\ boundsRun = NoBoundsRun

\* useState(""), useState(""), useState(false), useState("5.0"), useState("")
NoForm == [ssid |-> <<>>, password |-> <<>>, isOpen |-> FALSE,
           networkType |-> <<"5", ".", "0">>, error |-> ""]

NoSanRun == [phase |-> "off", input |-> <<>>, output |-> <<>>]

NoWaitRun == [phase |-> "off"]

NoPrintRun == [phase |-> "off"]

\* the form untouched, handleDownload as in the latest build, nothing else called
UiOff ==
    /\ form = NoForm
    /\ handlerBuild = "tryFinally"
    /\ sanRun = NoSanRun
    /\ waitRun = NoWaitRun
    /\ printRun = NoPrintRun

\* no earlier call of buildWifiStickerPng
NoRun == [n |-> 0, qrSize |-> 0, gapQrText |-> 0, passStartPx |-> 0,
          ssidStartPx |-> 0, netStartPx |-> 0, drawn |-> NoDraw]

----------------------------------------------------------------------------
(* Strings are sequences of one-character strings *)

RECURSIVE TrimLeft(_)
TrimLeft(s) == IF s # <<>> /\ Head(s) = " " THEN TrimLeft(Tail(s)) ELSE s

RECURSIVE TrimRight(_)
TrimRight(s) ==
    IF s # <<>> /\ s[Len(s)] = " " THEN TrimRight(SubSeq(s, 1, Len(s) - 1)) ELSE s

\* String.prototype.trim
Trim(s) == TrimRight(TrimLeft(s))

\* characters kept by /[^a-z0-9-_]/gi
FilenameChars ==
    {"a", "b", "c", "d", "e", "f", "g", "h", "i", "j", "k", "l", "m",
     "n", "o", "p", "q", "r", "s", "t", "u", "v", "w", "x", "y", "z",
     "A", "B", "C", "D", "E", "F", "G", "H", "I", "J", "K", "L", "M",
     "N", "O", "P", "Q", "R", "S", "T", "U", "V", "W", "X", "Y", "Z",
     "0", "1", "2", "3", "4", "5", "6", "7", "8", "9", "-", "_"}

safeFilename(value) ==
    LET t == Trim(value)
        base == IF t = <<>> THEN <<"q", "r">> ELSE t
    IN  [k \in 1..Len(base) |->
            IF base[k] \in FilenameChars THEN base[k] ELSE "_"]

\* characters escaped by /[\;,:\"]/g
WifiSpecial == {"\\", ";", ",", ":", "\""}

\* escaping that leaves the backslash itself alone
RECURSIVE escapeWifiKeepBackslash(_)
escapeWifiKeepBackslash(value) ==
    IF value = <<>> THEN <<>>
    ELSE (IF Head(value) \in {";", ",", ":", "\""}
          THEN <<"\\", Head(value)>> ELSE <<Head(value)>>)
         \o escapeWifiKeepBackslash(Tail(value))

RECURSIVE escapeWifi(_)
escapeWifi(value) ==
    IF value = <<>> THEN <<>>
    ELSE (IF Head(value) \in WifiSpecial
          THEN <<"\\", Head(value)>> ELSE <<Head(value)>>)
         \o escapeWifi(Tail(value))

generateValue(item) ==
    LET escapedSsid == escapeWifi(Trim(item.ssid))
        escapedPassword == escapeWifi(Trim(item.password))
    IN  IF item.isOpen
        THEN <<"W", "I", "F", "I", ":", "T", ":", "n", "o", "p", "a", "s", "s",
               ";", "S", ":">> \o escapedSsid \o <<";", ";">>
        ELSE <<"W", "I", "F", "I", ":", "T", ":", "W", "P", "A", ";", "S", ":">>
               \o escapedSsid \o <<";", "P", ":">> \o escapedPassword
               \o <<";", ";">>

\* passText of buildWifiStickerPng
passTextOf(item) ==
    IF item.isOpen THEN <<"O", "P", "E", "N">> ELSE item.password

----------------------------------------------------------------------------
(* The page state *)

MaxItems == 2

MaxRequests == 2

Requests == 1..MaxRequests

\* items as handleAdd stores them (trimmed SSID, password or open network)
Items ==
    {[ssid |-> <<"R", "7">>, password |-> <<"a", ";", "b">>, isOpen |-> FALSE,
      networkType |-> <<"5", ".", "0">>],
     [ssid |-> <<"n", ":", "1">>, password |-> <<>>, isOpen |-> TRUE,
      networkType |-> <<"2", ".", "4">>]}

\* null where an item is expected
NoItem == [ssid |-> <<>>, password |-> <<>>, isOpen |-> FALSE, networkType |-> <<>>]

\* null where a data URL is expected
NoUrl == <<>>

\* printIndex = null
NoIndex == -1

ImageKeys == {"logo", "wifi", "qr"}

\* qrs[index] || null (JavaScript indices start at 0)
ItemAt(list, index) ==
    IF index + 1 \in DOMAIN list THEN list[index + 1] ELSE NoItem

IdleRequest ==
    [phase |-> "idle", index |-> NoIndex, qrsSeen |-> <<>>, qrDataUrl |-> NoUrl,
     item |-> NoItem, ctxOk |-> TRUE, loadsStarted |-> FALSE,
     imgs |-> [k \in ImageKeys |-> "none"], build |-> "none"]

\* the hidden <QRCodeCanvas id="print-canvas"> exists only while
\* printIndex != null && qrs[printIndex]; capture returns its PNG or null
capturePrintCanvasPng ==
    IF printIndex # NoIndex /\ ItemAt(qrs, printIndex) # NoItem
    THEN generateValue(ItemAt(qrs, printIndex))
    ELSE NoUrl

\* Promise.allSettled in place of Promise.all: a failed load does not reject
PromiseAllSettled(imgs) ==
    IF \A k \in ImageKeys : imgs[k] \in {"loaded", "failed"} THEN "fulfilled"
    ELSE "pending"

\* Promise.all over the three loadImage promises
PromiseAll(imgs) ==
    IF \E k \in ImageKeys : imgs[k] = "failed" THEN "rejected"
    ELSE IF \A k \in ImageKeys : imgs[k] = "loaded" THEN "fulfilled"
    ELSE "pending"

\* buildWifiStickerPng without the `if (!ctx) return null` check
buildStartNoCheck(ctxOk) ==
    [build |-> "pending", loadsStarted |-> TRUE,
     imgs |-> [k \in ImageKeys |-> "pending"]]

\* buildWifiStickerPng up to its first await: null without a 2D context,
\* otherwise the three image loads are started
buildStart(ctxOk) ==
    IF ~ctxOk
    THEN [build |-> "null", loadsStarted |-> FALSE,
          imgs |-> [k \in ImageKeys |-> "none"]]
    ELSE [build |-> "pending", loadsStarted |-> TRUE,
          imgs |-> [k \in ImageKeys |-> "pending"]]

\* the file handed to the browser: a.href = sticker || qrDataUrl
DownloadOf(r, outcome, item, qrDataUrl) ==
    IF outcome = "sticker"
    THEN [req |-> r, kind |-> "sticker", qr |-> qrDataUrl,
          pass |-> passTextOf(item), ssid |-> item.ssid, net |-> item.networkType,
          name |-> safeFilename(item.ssid)]
    ELSE [req |-> r, kind |-> "qr", qr |-> qrDataUrl,
          pass |-> <<>>, ssid |-> <<>>, net |-> <<>>,
          name |-> safeFilename(item.ssid)]

----------------------------------------------------------------------------
(* The layout fitter *)

Init ==
    /\ build \in Builds
    /\ logoImg \in LogoSizes
    /\ wifiImg \in WifiSizes
    /\ passLen \in PassLens
    /\ ssidLen \in SsidLens
    /\ netLen \in NetLens
    /\ em \in EmSet
    /\ pc = "pack"
    /\ i = 0
    /\ qrSize = Cfg.qrSize0
    /\ gapQrText = Cfg.gapQrText0
    /\ passStartPx = Cfg.passStartPx0
    /\ ssidStartPx = Cfg.ssidStartPx0
    /\ netStartPx = Cfg.netStartPx0
    /\ brokeOut = FALSE
    /\ lastFit = NoFit
    /\ drawn = NoDraw
    /\ result = NullCanvas
    /\ qrs = <<>>
    /\ printIndex = NoIndex
    /\ reqs = [r \in Requests |-> IdleRequest]
    /\ downloads = <<>>
    /\ PureOff
    /\ UiOff
    /\ prevRun = NoRun

inputVars == <<build, logoImg, wifiImg, passLen, ssidLen, netLen, em>>

\* the three branches at the end of an iteration, all taken in one iteration
ShrinkStepAllAtOnce ==
    [qrSize      |-> IF qrSize > Cfg.qrFloor THEN qrSize - Cfg.qrStep ELSE qrSize,
     gapQrText   |-> IF gapQrText > Cfg.gapFloor
                     THEN gapQrText - Cfg.gapStep ELSE gapQrText,
     passStartPx |-> jsMax(Cfg.passStartFloor, passStartPx - Cfg.passStep),
     ssidStartPx |-> jsMax(Cfg.ssidStartFloor, ssidStartPx - Cfg.ssidStep),
     netStartPx  |-> jsMax(Cfg.netStartFloor, netStartPx - Cfg.netStep)]

\* `if (qrSize > ..) qrSize -= 12; else if (gapQrText > 26) gapQrText -= 4;
\* else { passStartPx = Math.max(..); ssidStartPx = ..; netStartPx = ..; }`
ShrinkStep ==
    LET same == [qrSize |-> qrSize, gapQrText |-> gapQrText,
                 passStartPx |-> passStartPx, ssidStartPx |-> ssidStartPx,
                 netStartPx |-> netStartPx]
    IN  IF qrSize > Cfg.qrFloor
        THEN [same EXCEPT !.qrSize = qrSize - Cfg.qrStep]
        ELSE IF gapQrText > Cfg.gapFloor
        THEN [same EXCEPT !.gapQrText = gapQrText - Cfg.gapStep]
        ELSE [same EXCEPT
                !.passStartPx = jsMax(Cfg.passStartFloor, passStartPx - Cfg.passStep),
                !.ssidStartPx = jsMax(Cfg.ssidStartFloor, ssidStartPx - Cfg.ssidStep),
                !.netStartPx = jsMax(Cfg.netStartFloor, netStartPx - Cfg.netStep)]

\* one iteration of `for (let i = 0; i < 18; i += 1) { ... }`
PackIteration ==
    /\ pc = "pack"
    /\ i < LoopBound
    /\ lastFit' = LoopFit
    /\ IF LoopFit.ok
       THEN /\ pc' = "draw"
            /\ brokeOut' = TRUE
            /\ UNCHANGED <<i, qrSize, gapQrText, passStartPx, ssidStartPx, netStartPx>>
       ELSE /\ i' = i + 1
            /\ UNCHANGED <<pc, brokeOut>>
            /\ qrSize' = ShrinkStep.qrSize
            /\ gapQrText' = ShrinkStep.gapQrText
            /\ passStartPx' = ShrinkStep.passStartPx
            /\ ssidStartPx' = ShrinkStep.ssidStartPx
            /\ netStartPx' = ShrinkStep.netStartPx
    /\ UNCHANGED <<inputVars, drawn, result, pageVars, pureVars, prevRun, uiVars>>

\* the loop condition i < 18 fails: the loop ends without a break
PackExhausted ==
    /\ pc = "pack"
    /\ i >= LoopBound
    /\ pc' = "draw"
    /\ UNCHANGED <<inputVars, i, qrSize, gapQrText, passStartPx, ssidStartPx,
                   netStartPx, brokeOut, lastFit, drawn, result, pageVars, pureVars, prevRun, uiVars>>

\* the guard left out: the text is drawn where the bottom-up stack put it
guardShiftNone(minTextTop, passTop) == 0

\* shiftUp = Math.max(0, minTextTop - passTop)
guardShift(minTextTop, passTop) == jsMax(0, jsSub(minTextTop, passTop))

\* logo, QR, the three text lines (with the shiftUp guard) and the footer icon
Draw ==
    /\ pc = "draw"
    /\ LET y       == jsAdd(jsAdd(Cfg.padTop, logoH), Cfg.gapLogoQr)
           footerY == jsSub(Cfg.labelH - Cfg.padBottom, wifiH)
           netPx   == fitTextSize(netLen, maxTextW, 900, netStartPx, Cfg.netMinPx)
           ssidPx  == fitTextSize(ssidLen, maxTextW, 800, ssidStartPx, Cfg.ssidMinPx)
           passPx  == fitTextSize(passLen, maxTextW, 900, passStartPx, Cfg.passMinPx)
           st      == TextStack(footerY, passPx, ssidPx, netPx)
           minTextTop == jsAdd(jsAdd(y, qrSize), gapQrText)
           shiftUp == guardShift(minTextTop, st.passTop)
           dPass   == drawCenteredText(passLen, jsAdd(st.passTop, shiftUp), maxTextW,
                                       900, passStartPx, Cfg.passMinPx)
           dSsid   == drawCenteredText(ssidLen, jsAdd(st.ssidTop, shiftUp), maxTextW,
                                       800, ssidStartPx, Cfg.ssidMinPx)
           dNet    == drawCenteredText(netLen, jsAdd(st.netTop, shiftUp), maxTextW,
                                       900, netStartPx, Cfg.netMinPx)
       IN  drawn' = [logoTop |-> Cfg.padTop, logoH |-> logoH,
                     qrTop |-> y, qrSize |-> qrSize,
                     passY |-> dPass.y, passPx |-> dPass.sizePx,
                     ssidY |-> dSsid.y, ssidPx |-> dSsid.sizePx,
                     netY |-> dNet.y, netPx |-> dNet.sizePx,
                     footerY |-> footerY, wifiH |-> wifiH,
                     gapQrText |-> gapQrText, shiftUp |-> shiftUp]
    /\ pc' = "rotate"
    /\ UNCHANGED <<inputVars, i, qrSize, gapQrText, passStartPx, ssidStartPx,
                   netStartPx, brokeOut, lastFit, result, pageVars, pureVars, prevRun, uiVars>>

\* rotateCanvas90CWTo: a canvas of outW x outH, or null without a 2D context
rotateCanvas90CWTo(src, outW, outH, hasCtx) ==
    IF hasCtx THEN [w |-> outW, h |-> outH, rotated |-> TRUE] ELSE NullCanvas

\* return canvas.toDataURL(), or (out || canvas).toDataURL() after rotating
Return ==
    /\ pc = "rotate"
    /\ \E hasCtx \in BOOLEAN :
         LET canvas == [w |-> Cfg.labelW, h |-> Cfg.labelH, rotated |-> FALSE]
             out == rotateCanvas90CWTo(canvas, LABEL_OUT_PX.w, LABEL_OUT_PX.h, hasCtx)
         IN  result' = IF ~Cfg.rotate THEN canvas
                       ELSE IF out # NullCanvas THEN out ELSE canvas
    /\ pc' = "returned"
    /\ UNCHANGED <<inputVars, i, qrSize, gapQrText, passStartPx, ssidStartPx,
                   netStartPx, brokeOut, lastFit, drawn, pageVars, pureVars, prevRun, uiVars>>

Next == PackIteration \/ PackExhausted \/ Draw \/ Return

Spec == Init /\ [][Next]_vars

----------------------------------------------------------------------------
(* buildWifiStickerPng called again with the same arguments *)

MaxRenders == 2

\* the loop counter left where the previous call's loop ended, as a counter
\* declared outside the function would be
StaleCounter ==
    [i |-> i, qrSize |-> Cfg.qrSize0, gapQrText |-> Cfg.gapQrText0,
     passStartPx |-> Cfg.passStartPx0, ssidStartPx |-> Cfg.ssidStartPx0,
     netStartPx |-> Cfg.netStartPx0]

\* `let qrSize = 440; let passStartPx = 88; ... let gapQrText = 38;` and
\* `for (let i = 0; ...`: locals of the call, initialised on entry
FreshLocals ==
    [i |-> 0, qrSize |-> Cfg.qrSize0, gapQrText |-> Cfg.gapQrText0,
     passStartPx |-> Cfg.passStartPx0, ssidStartPx |-> Cfg.ssidStartPx0,
     netStartPx |-> Cfg.netStartPx0]

\* a later call with the same item, images and text measurements: a new
\* canvas, new locals; what the earlier call ended with is remembered in prevRun
Rerender ==
    /\ pc = "returned"
    /\ prevRun.n + 1 < MaxRenders
    /\ prevRun' = [n |-> prevRun.n + 1, qrSize |-> qrSize, gapQrText |-> gapQrText,
                   passStartPx |-> passStartPx, ssidStartPx |-> ssidStartPx,
                   netStartPx |-> netStartPx, drawn |-> drawn]
    /\ pc' = "pack"
    /\ i' = FreshLocals.i
    /\ qrSize' = FreshLocals.qrSize
    /\ gapQrText' = FreshLocals.gapQrText
    /\ passStartPx' = FreshLocals.passStartPx
    /\ ssidStartPx' = FreshLocals.ssidStartPx
    /\ netStartPx' = FreshLocals.netStartPx
    /\ brokeOut' = FALSE
    /\ lastFit' = NoFit
    /\ drawn' = NoDraw
    /\ result' = NullCanvas
    /\ UNCHANGED <<inputVars, pageVars, pureVars, uiVars>>

RerenderNext == Next \/ Rerender

RerenderSpec == Init /\ [][RerenderNext]_vars

----------------------------------------------------------------------------
(* handleDownload *)

\* no call of buildWifiStickerPng is in progress
LayoutIdle ==
    /\ build = "portrait"
    /\ logoImg = [w |-> 0, h |-> 0]
    /\ wifiImg = [w |-> 0, h |-> 0]
    /\ passLen = 0 /\ ssidLen = 0 /\ netLen = 0
    /\ pc = "off"
    /\ i = 0
    /\ qrSize = 0 /\ gapQrText = 0
    /\ passStartPx = 0 /\ ssidStartPx = 0 /\ netStartPx = 0
    /\ brokeOut = FALSE
    /\ lastFit = NoFit
    /\ drawn = NoDraw
    /\ result = NullCanvas
    /\ prevRun = NoRun

\* the layout fitter is not stepped while the page is explored
LayoutOff == LayoutIdle /\ em = 0

\* no item stored, no request made
PageOff ==
    /\ qrs = <<>>
    /\ printIndex = NoIndex
    /\ reqs = [r \in Requests |-> IdleRequest]
    /\ downloads = <<>>

\* the page with one to MaxItems stored items and no request made yet
DownloadInit ==
    /\ LayoutOff
    /\ PureOff
    /\ UiOff
    /\ \E n \in 1..MaxItems : qrs \in [1..n -> Items]
    /\ printIndex = NoIndex
    /\ reqs = [r \in Requests |-> IdleRequest]
    /\ downloads = <<>>

\* the end of the deferred task of request r: the download and
\* `finally { setPrintIndex(null) }`; of its Image objects only the one that
\* failed (if any) is remembered
Finish(r, rec, outcome) ==
    /\ reqs' = [reqs EXCEPT ![r] =
                   [rec EXCEPT !.phase = "done", !.build = outcome,
                               !.imgs = [k \in ImageKeys |->
                                           IF rec.imgs[k] = "failed"
                                           THEN "failed" ELSE "none"]]]
    /\ downloads' = Append(downloads, DownloadOf(r, outcome, rec.item, rec.qrDataUrl))
    /\ printIndex' = NoIndex

\* Descargar on row idx: handleDownload(idx) sets printIndex and arms the timer;
\* the handler closes over the qrs of the render it belongs to
ClickDownload(idx) ==
    /\ idx + 1 \in DOMAIN qrs
    /\ \E r \in Requests :
         /\ reqs[r].phase = "idle"
         /\ \A r2 \in Requests : r2 < r => reqs[r2].phase # "idle"
         /\ reqs' = [reqs EXCEPT ![r] =
                        [IdleRequest EXCEPT !.phase = "timer", !.index = idx,
                                            !.qrsSeen = qrs]]
    /\ printIndex' = idx
    /\ UNCHANGED <<layoutVars, pureVars, prevRun, uiVars, qrs, downloads>>

\* Quitar on row idx: setQrs(prev => prev.filter((_, k) => k !== idx))
Quitar(idx) ==
    /\ idx + 1 \in DOMAIN qrs
    /\ qrs' = [k \in 1..(Len(qrs) - 1) |-> IF k < idx + 1 THEN qrs[k] ELSE qrs[k + 1]]
    /\ UNCHANGED <<layoutVars, pureVars, prevRun, uiVars, printIndex, reqs, downloads>>

\* the 160 ms timer of request r fires (timers of equal delay fire in the
\* order they were armed): capture, look the item up, start the build
TimerFire(r) ==
    /\ reqs[r].phase = "timer"
    /\ \A r2 \in Requests : r2 < r => reqs[r2].phase # "timer"
    /\ LET qrDataUrl == capturePrintCanvasPng
           item == ItemAt(reqs[r].qrsSeen, reqs[r].index)
           rec == [reqs[r] EXCEPT !.qrDataUrl = qrDataUrl, !.item = item,
                                  !.qrsSeen = <<>>]
       IN  IF qrDataUrl = NoUrl \/ item = NoItem
           THEN /\ reqs' = [reqs EXCEPT ![r] = [rec EXCEPT !.phase = "done"]]
                /\ printIndex' = NoIndex
                /\ UNCHANGED downloads
           ELSE \E ctxOk \in BOOLEAN :
                  LET b == buildStart(ctxOk)
                      rec2 == [rec EXCEPT !.ctxOk = ctxOk, !.imgs = b.imgs,
                                          !.loadsStarted = b.loadsStarted]
                  IN  IF b.build = "null"
                      THEN Finish(r, rec2, "null")
                      ELSE /\ reqs' = [reqs EXCEPT ![r] =
                                  [rec2 EXCEPT !.phase = "loading", !.build = "pending"]]
                           /\ UNCHANGED <<printIndex, downloads>>
    /\ UNCHANGED <<layoutVars, pureVars, prevRun, uiVars, qrs>>

\* img.onload of image k of request r; when it completes Promise.all the
\* sticker is composed, downloaded and printIndex reset.  (Events of a
\* request whose Promise.all has settled change nothing and are left out.)
ImgLoad(r, k) ==
    /\ reqs[r].phase = "loading"
    /\ reqs[r].imgs[k] = "pending"
    /\ LET rec == [reqs[r] EXCEPT !.imgs[k] = "loaded"]
       IN  IF PromiseAll(rec.imgs) = "fulfilled"
           THEN Finish(r, rec, "sticker")
           ELSE /\ reqs' = [reqs EXCEPT ![r] = rec]
                /\ UNCHANGED <<printIndex, downloads>>
    /\ UNCHANGED <<layoutVars, pureVars, prevRun, uiVars, qrs>>

\* img.onerror of image k of request r; the first one rejects Promise.all and
\* with it buildWifiStickerPng: the catch downloads the QR alone
ImgError(r, k) ==
    /\ reqs[r].phase = "loading"
    /\ reqs[r].imgs[k] = "pending"
    /\ LET rec == [reqs[r] EXCEPT !.imgs[k] = "failed"]
       IN  IF PromiseAll(rec.imgs) = "rejected"
           THEN Finish(r, rec, "rejected")
           ELSE /\ reqs' = [reqs EXCEPT ![r] = rec]
                /\ UNCHANGED <<printIndex, downloads>>
    /\ UNCHANGED <<layoutVars, pureVars, prevRun, uiVars, qrs>>

DownloadNext ==
    \/ \E idx \in 0..(MaxItems - 1) : ClickDownload(idx)
    \/ \E idx \in 0..(MaxItems - 1) : Quitar(idx)
    \/ \E r \in Requests : TimerFire(r)
    \/ \E r \in Requests, k \in ImageKeys : ImgLoad(r, k)
    \/ \E r \in Requests, k \in ImageKeys : ImgError(r, k)

DownloadSpec == DownloadInit /\ [][DownloadNext]_vars

\* an armed timer fires; the browser owes no image event and the user no click
FairDownloadSpec ==
    DownloadSpec /\ WF_vars(\E r \in Requests : TimerFire(r))

----------------------------------------------------------------------------
(* handleDownload when triggering the download throws, in both builds of the
   handler: with `try { ... } finally { setPrintIndex(null) }` and with a
   setPrintIndex(null) written at the end of each path *)

\* the page as in DownloadInit, running either build of the handler
ThrowInit ==
    /\ LayoutOff
    /\ PureOff
    /\ form = NoForm /\ sanRun = NoSanRun /\ waitRun = NoWaitRun /\ printRun = NoPrintRun
    /\ handlerBuild \in {"tryFinally", "plain"}
    /\ \E n \in 1..MaxItems : qrs \in [1..n -> Items]
    /\ printIndex = NoIndex
    /\ reqs = [r \in Requests |-> IdleRequest]
    /\ downloads = <<>>

\* the end of the deferred task of request r when appendChild / click /
\* removeChild throws: nothing after the throwing statement runs except a
\* finally block, the async function's promise rejects
FinishThrows(r, rec, outcome) ==
    /\ reqs' = [reqs EXCEPT ![r] =
                   [rec EXCEPT !.phase = "threw", !.build = outcome,
                               !.imgs = [k \in ImageKeys |->
                                           IF rec.imgs[k] = "failed"
                                           THEN "failed" ELSE "none"]]]
    /\ UNCHANGED downloads
    /\ printIndex' = IF handlerBuild = "tryFinally" THEN NoIndex ELSE printIndex

\* the timer task reaches the download without waiting (the build returned
\* null at once) and the download throws
TimerFireThrows(r) ==
    /\ reqs[r].phase = "timer"
    /\ \A r2 \in Requests : r2 < r => reqs[r2].phase # "timer"
    /\ LET qrDataUrl == capturePrintCanvasPng
           item == ItemAt(reqs[r].qrsSeen, reqs[r].index)
           rec == [reqs[r] EXCEPT !.qrDataUrl = qrDataUrl, !.item = item,
                                  !.qrsSeen = <<>>]
       IN  /\ qrDataUrl # NoUrl
           /\ item # NoItem
           /\ \E ctxOk \in BOOLEAN :
                 LET b == buildStart(ctxOk)
                     rec2 == [rec EXCEPT !.ctxOk = ctxOk, !.imgs = b.imgs,
                                         !.loadsStarted = b.loadsStarted]
                 IN  /\ b.build = "null"
                     /\ FinishThrows(r, rec2, "null")
    /\ UNCHANGED <<layoutVars, pureVars, prevRun, uiVars, qrs>>

\* the last image loads, the sticker is composed and the download throws
ImgLoadThrows(r, k) ==
    /\ reqs[r].phase = "loading"
    /\ reqs[r].imgs[k] = "pending"
    /\ LET rec == [reqs[r] EXCEPT !.imgs[k] = "loaded"]
       IN  /\ PromiseAll(rec.imgs) = "fulfilled"
           /\ FinishThrows(r, rec, "sticker")
    /\ UNCHANGED <<layoutVars, pureVars, prevRun, uiVars, qrs>>

\* an image fails, the build rejects and the fallback download throws
ImgErrorThrows(r, k) ==
    /\ reqs[r].phase = "loading"
    /\ reqs[r].imgs[k] = "pending"
    /\ LET rec == [reqs[r] EXCEPT !.imgs[k] = "failed"]
       IN  /\ PromiseAll(rec.imgs) = "rejected"
           /\ FinishThrows(r, rec, "rejected")
    /\ UNCHANGED <<layoutVars, pureVars, prevRun, uiVars, qrs>>

ThrowSpec ==
    /\ ThrowInit
    /\ [][
      \/ DownloadNext
      \/ \E r \in Requests : TimerFireThrows(r)
      \/ \E r \in Requests, k \in ImageKeys : ImgLoadThrows(r, k)
      \/ \E r \in Requests, k \in ImageKeys : ImgErrorThrows(r, k)
      ]_vars

----------------------------------------------------------------------------
(* fitTextSize applied to one text at two available widths *)

FitLens == {0, 7, 14, 80}

FitWeights == {800, 900}

FitStarts == {40, 47, 56, 88}

FitMins == {28, 42, 60}

FitWidths == {0, 100, 300, 490, 900}

FitInit ==
    /\ LayoutIdle
    /\ em \in EmSet
    /\ PageOff
    /\ UiOff
    /\ \E len \in FitLens, weight \in FitWeights, startPx \in FitStarts,
          minPx \in FitMins, maxWidth1 \in FitWidths, maxWidth2 \in FitWidths :
         fitRun = [NoFitRun EXCEPT !.phase = "in", !.len = len, !.weight = weight,
                                   !.startPx = startPx, !.minPx = minPx,
                                   !.maxWidth1 = maxWidth1, !.maxWidth2 = maxWidth2]
    /\ rotRun = NoRotRun
    /\ boundsRun = NoBoundsRun

\* fitTextSize(ctx, {text, maxWidth, weight, startPx, minPx}) for both widths
ApplyFit ==
    /\ fitRun.phase = "in"
    /\ fitRun' = [fitRun EXCEPT
                    !.phase = "out",
                    !.size1 = fitTextSize(fitRun.len, fitRun.maxWidth1, fitRun.weight,
                                          fitRun.startPx, fitRun.minPx),
                    !.size2 = fitTextSize(fitRun.len, fitRun.maxWidth2, fitRun.weight,
                                          fitRun.startPx, fitRun.minPx)]
    /\ UNCHANGED <<layoutVars, pageVars, rotRun, boundsRun, prevRun, uiVars>>

FitSpec == FitInit /\ [][ApplyFit]_vars

----------------------------------------------------------------------------
(* rotateCanvas90CWTo applied to a bitmap *)

\* largest width and height of a rotated bitmap (the sticker base is portrait)
MaxW == 2

MaxH == 3

\* value of a pixel nothing was drawn on (a new canvas is transparent)
Blank == 0

\* pixel values of a composed sticker
Colours == {1, 2}

Pixels(w, h) == (0..(w - 1)) \X (0..(h - 1))

\* every bitmap of w x h pixels
Bitmaps(w, h) ==
    {[w |-> w, h |-> h, px |-> f] : f \in [Pixels(w, h) -> Colours]}

Min2(a, b) == IF a <= b THEN a ELSE b

\* Math.cos(Math.PI / 2) and Math.sin(Math.PI / 2), taken as an exact quarter turn
Cos90 == 0

Sin90 == 1

\* ctx.rotate(Math.PI / 2) with the ctx.translate(outW, 0) before it left out
RotateCWTransformNoTranslate(p, outW) ==
    [x |-> p.x * Cos90 - p.y * Sin90, y |-> p.x * Sin90 + p.y * Cos90]

\* ctx.translate(outW, 0); ctx.rotate(Math.PI / 2): where the point p of the
\* source is drawn
RotateCWTransform(p, outW) ==
    [x |-> outW + (p.x * Cos90 - p.y * Sin90), y |-> p.x * Sin90 + p.y * Cos90]

\* the output pixel covered by source pixel q = <<x, y>>, i.e. by the unit
\* square from (x, y) to (x + 1, y + 1)
DevicePixel(q, outW) ==
    LET a == RotateCWTransform([x |-> q[1], y |-> q[2]], outW)
        b == RotateCWTransform([x |-> q[1] + 1, y |-> q[2] + 1], outW)
    IN  <<Min2(a.x, b.x), Min2(a.y, b.y)>>

\* the source pixels drawn on output pixel d
Hits(src, outW, d) == {q \in Pixels(src.w, src.h) : DevicePixel(q, outW) = d}

\* ctx.drawImage(srcCanvas, 0, 0) under that transform onto a new outW x outH
\* canvas; what falls outside the canvas is clipped
rotateBitmap90CWTo(src, outW, outH) ==
    [w |-> outW, h |-> outH,
     px |-> [d \in Pixels(outW, outH) |->
               IF Hits(src, outW, d) = {} THEN Blank
               ELSE src.px[CHOOSE q \in Hits(src, outW, d) : TRUE]]]

RotInit ==
    /\ LayoutOff
    /\ PageOff
    /\ UiOff
    /\ fitRun = NoFitRun
    /\ \E w \in 1..MaxW, h \in 1..MaxH :
         \E src \in Bitmaps(w, h) :
           rotRun = [NoRotRun EXCEPT !.phase = "in", !.src = src]
    /\ boundsRun = NoBoundsRun

\* rotateCanvas90CWTo(canvas, canvas.height, canvas.width)
ApplyRotate ==
    /\ rotRun.phase = "in"
    /\ \E hasCtx \in BOOLEAN :
         rotRun' = IF hasCtx
                   THEN [rotRun EXCEPT
                           !.phase = "out",
                           !.out = rotateBitmap90CWTo(rotRun.src, rotRun.src.h,
                                                      rotRun.src.w)]
                   ELSE [rotRun EXCEPT !.phase = "null"]
    /\ UNCHANGED <<layoutVars, pageVars, fitRun, boundsRun, prevRun, uiVars>>

RotSpec == RotInit /\ [][ApplyRotate]_vars

----------------------------------------------------------------------------
(* getBackgroundBoundsFromImage applied to an image *)

\* default options
alphaThreshold == 10

tolerance == 24

sampleSize == 12

lumaDelta == 10

\* RGBA pixels
White == [r |-> 255, g |-> 255, b |-> 255, a |-> 255]

Black == [r |-> 0, g |-> 0, b |-> 0, a |-> 255]

NearWhite == [r |-> 245, g |-> 245, b |-> 245, a |-> 255]

Clear == [r |-> 0, g |-> 0, b |-> 0, a |-> 0]

Max2(a, b) == IF a >= b THEN a ELSE b

SetMin(S) == CHOOSE x \in S : \A y \in S : x <= y

SetMax(S) == CHOOSE x \in S : \A y \in S : x >= y

RECURSIVE Gcd(_, _)
Gcd(a, b) == IF b = 0 THEN a ELSE Gcd(b, a % b)

\* { x: 0, y: 0, w, h }
FullBounds(img) == [x |-> 0, y |-> 0, w |-> Max2(1, img.w), h |-> Max2(1, img.h)]

\* s = clamp(sampleSize, 1, Math.min(w, h))
SampleSide(img) == Max2(1, Min2(Min2(Max2(1, img.w), Max2(1, img.h)), sampleSize))

\* the four corner rectangles, by their top-left pixel
CornerRects(img) ==
    LET s == SampleSide(img)
        w == Max2(1, img.w)
        h == Max2(1, img.h)
    IN  <<(<<0, 0>>), (<<w - s, 0>>), (<<0, h - s>>), (<<w - s, h - s>>)>>

\* sumR, sumG, sumB and count over the pixels x, x + 1, ... of row y of the
\* rectangle that ends before column xEnd, skipping a <= alphaThreshold
RECURSIVE SumRow(_, _, _, _)
SumRow(img, x, xEnd, y) ==
    IF x >= xEnd THEN [r |-> 0, g |-> 0, b |-> 0, n |-> 0]
    ELSE LET px == img.px[<<x, y>>]
             rest == SumRow(img, x + 1, xEnd, y)
         IN  IF px.a <= alphaThreshold THEN rest
             ELSE [r |-> rest.r + px.r, g |-> rest.g + px.g,
                   b |-> rest.b + px.b, n |-> rest.n + 1]

\* the same over the rows k, k + 1, ... of the s x s rectangle at (x0, y0)
RECURSIVE SumRect(_, _, _, _, _)
SumRect(img, x0, y0, s, k) ==
    IF k >= s THEN [r |-> 0, g |-> 0, b |-> 0, n |-> 0]
    ELSE LET row == SumRow(img, x0, x0 + s, y0 + k)
             rest == SumRect(img, x0, y0, s, k + 1)
         IN  [r |-> row.r + rest.r, g |-> row.g + rest.g,
              b |-> row.b + rest.b, n |-> row.n + rest.n]

\* the sums over the four corner reads (a pixel in two rectangles counts twice)
RECURSIVE CornerSums(_, _)
CornerSums(img, c) ==
    IF c > 4 THEN [r |-> 0, g |-> 0, b |-> 0, n |-> 0]
    ELSE LET one == SumRect(img, CornerRects(img)[c][1], CornerRects(img)[c][2],
                            SampleSide(img), 0)
             rest == CornerSums(img, c + 1)
         IN  [r |-> one.r + rest.r, g |-> one.g + rest.g,
              b |-> one.b + rest.b, n |-> one.n + rest.n]

\* bgR = sumR / count, bgG, bgB as fractions r/n, g/n, b/n in lowest terms
Background(sum) ==
    LET d == Gcd(Gcd(Gcd(sum.n, sum.r), sum.g), sum.b)
    IN  [r |-> sum.r \div d, g |-> sum.g \div d, b |-> sum.b \div d, n |-> sum.n \div d]

\* dist*dist scaled by n*n, and luma and bgL scaled by 10000 (and by n)
Dist2(px, bg) ==
    (px.r * bg.n - bg.r) * (px.r * bg.n - bg.r)
      + (px.g * bg.n - bg.g) * (px.g * bg.n - bg.g)
      + (px.b * bg.n - bg.b) * (px.b * bg.n - bg.b)

Luma(px) == 2126 * px.r + 7152 * px.g + 722 * px.b

\* the two `continue` tests of the scan turned around
IsForegroundInverted(px, bg) ==
    /\ px.a > alphaThreshold
    /\ \/ /\ Dist2(px, bg) <= tolerance * tolerance * bg.n * bg.n
          /\ Luma(px) * bg.n >= Luma(bg) - lumaDelta * 10000 * bg.n
       \/ /\ Luma(px) * bg.n >= Luma(bg) - Max2(3, lumaDelta \div 2) * 10000 * bg.n
          /\ Dist2(px, bg) <= (tolerance * 2) * (tolerance * 2) * bg.n * bg.n

\* a pixel the scan does not skip: opaque, and neither close to the
\* background nor an "almost background" bright pixel
IsForeground(px, bg) ==
    /\ px.a > alphaThreshold
    /\ ~ /\ Dist2(px, bg) <= tolerance * tolerance * bg.n * bg.n
         /\ Luma(px) * bg.n >= Luma(bg) - lumaDelta * 10000 * bg.n
    /\ ~ /\ Luma(px) * bg.n >= Luma(bg) - Max2(3, lumaDelta \div 2) * 10000 * bg.n
         /\ Dist2(px, bg) <= (tolerance * 2) * (tolerance * 2) * bg.n * bg.n

\* the scan, row by row from row y: running minX, minY, maxX, maxY
RECURSIVE ScanRows(_, _, _, _)
ScanRows(img, bg, y, acc) ==
    IF y >= img.h THEN acc
    ELSE LET xs == {x \in 0..(img.w - 1) : IsForeground(img.px[<<x, y>>], bg)}
         IN  ScanRows(img, bg, y + 1,
                      IF xs = {} THEN acc
                      ELSE [minX |-> Min2(acc.minX, SetMin(xs)),
                            minY |-> Min2(acc.minY, y),
                            maxX |-> Max2(acc.maxX, SetMax(xs)),
                            maxY |-> Max2(acc.maxY, y)])

\* the box computed without the + 1
BoundsOfExtremesNoPlusOne(img, acc) ==
    IF acc.maxX < acc.minX \/ acc.maxY < acc.minY THEN FullBounds(img)
    ELSE [x |-> acc.minX, y |-> acc.minY,
          w |-> acc.maxX - acc.minX, h |-> acc.maxY - acc.minY]

\* `if (maxX < minX || maxY < minY) return full; return { x: minX, ... }`
BoundsOfExtremes(img, acc) ==
    IF acc.maxX < acc.minX \/ acc.maxY < acc.minY THEN FullBounds(img)
    ELSE [x |-> acc.minX, y |-> acc.minY,
          w |-> acc.maxX - acc.minX + 1, h |-> acc.maxY - acc.minY + 1]

\* what the browser does to the call: nothing, no 2D context, getImageData
\* throwing on the corner reads, getImageData throwing on the full read
ReadEnvs == {"ok", "noCtx", "cornerReadFails", "fullReadFails"}

getBackgroundBoundsFromImage(img, env) ==
    IF env = "noCtx" THEN FullBounds(img)
    ELSE LET sum == IF env = "cornerReadFails"
                    THEN [r |-> 0, g |-> 0, b |-> 0, n |-> 0]
                    ELSE CornerSums(img, 1)
         IN  IF sum.n <= 0 THEN FullBounds(img)
             ELSE IF env = "fullReadFails" THEN FullBounds(img)
             ELSE BoundsOfExtremes(img,
                      ScanRows(img, Background(sum), 0,
                               [minX |-> img.w, minY |-> img.h,
                                maxX |-> -1, maxY |-> -1]))

\* small images of every content: a pixel, 2 x 2, rows and columns of five
\* (their middle pixels are in no corner sample), and two-tone 5 x 2 and 2 x 5
GridSizes == {<<1, 1>>, <<2, 2>>, <<5, 1>>, <<1, 5>>}

GridPalette == {White, Black, NearWhite, Clear}

TwoToneSizes == {<<5, 2>>, <<2, 5>>}

TwoTonePalette == {White, Black}

\* sides of the white images that carry a centred black square
SquareSide == 10

ScenarioSides == {10, 12, 26, 28, 34, 36}

\* top-left pixel of the centred square
SquareOrigin(w, h) == <<(w - SquareSide) \div 2, (h - SquareSide) \div 2>>

InSquare(p, w, h) ==
    /\ p[1] >= SquareOrigin(w, h)[1] /\ p[1] < SquareOrigin(w, h)[1] + SquareSide
    /\ p[2] >= SquareOrigin(w, h)[2] /\ p[2] < SquareOrigin(w, h)[2] + SquareSide

SquareImage(w, h) ==
    [w |-> w, h |-> h,
     px |-> [p \in Pixels(w, h) |-> IF InSquare(p, w, h) THEN Black ELSE White]]

BoundsInit ==
    /\ LayoutOff
    /\ PageOff
    /\ UiOff
    /\ fitRun = NoFitRun
    /\ rotRun = NoRotRun
    /\ \E env \in ReadEnvs :
         \/ \E wh \in GridSizes : \E f \in [Pixels(wh[1], wh[2]) -> GridPalette] :
              boundsRun = [NoBoundsRun EXCEPT
                             !.phase = "in", !.env = env,
                             !.img = [w |-> wh[1], h |-> wh[2], px |-> f]]
         \/ \E wh \in TwoToneSizes : \E f \in [Pixels(wh[1], wh[2]) -> TwoTonePalette] :
              boundsRun = [NoBoundsRun EXCEPT
                             !.phase = "in", !.env = env,
                             !.img = [w |-> wh[1], h |-> wh[2], px |-> f]]
         \/ \E w \in ScenarioSides, h \in ScenarioSides :
              boundsRun = [NoBoundsRun EXCEPT
                             !.phase = "in", !.env = env, !.img = SquareImage(w, h)]

ApplyBounds ==
    /\ boundsRun.phase = "in"
    /\ boundsRun' = [boundsRun EXCEPT
                       !.phase = "out",
                       !.result = getBackgroundBoundsFromImage(boundsRun.img,
                                                               boundsRun.env)]
    /\ UNCHANGED <<layoutVars, pageVars, fitRun, rotRun, prevRun, uiVars>>

BoundsSpec == BoundsInit /\ [][ApplyBounds]_vars

----------------------------------------------------------------------------
(* sanitizeNumericDot applied to one string *)

MaxSanLen == 4

\* cleaned.replace(/(\..*)\./g, "$1") from position `from` on: the leftmost
\* match starts at the first dot, the greedy `.*` runs to the end and backs
\* off to the last dot, which alone is dropped; the search goes on after it
RECURSIVE dropDotAfterDot(_, _)
dropDotAfterDot(cleaned, from) ==
    LET dots == {k \in from..Len(cleaned) : cleaned[k] = "."}
        first == CHOOSE k \in dots : \A j \in dots : k <= j
        last == CHOOSE k \in dots : \A j \in dots : j <= k
    IN  IF dots = {} \/ first = last
        THEN SubSeq(cleaned, from, Len(cleaned))
        ELSE SubSeq(cleaned, from, last - 1) \o dropDotAfterDot(cleaned, last + 1)

sanitizeNumericDot(value) ==
    LET cleaned == SelectSeq(value, LAMBDA c :
                       c \in {"0", "1", "2", "3", "4", "5", "6", "7", "8", "9", "."})
    IN  dropDotAfterDot(cleaned, 1)

\* the argument is a text typed or pasted into the network-type field:
\* digits, dots and other characters
SanInit ==
    /\ LayoutOff
    /\ PageOff
    /\ PureOff
    /\ form = NoForm /\ handlerBuild = "tryFinally"
    /\ waitRun = NoWaitRun /\ printRun = NoPrintRun
    /\ \E n \in 0..MaxSanLen :
         \E s \in [1..n -> {"5", "0", ".", "G"}] : sanRun = [phase |-> "called", input |-> s, output |-> <<>>]

ApplySanitize ==
    /\ sanRun.phase = "called"
    /\ sanRun' = [sanRun EXCEPT !.phase = "returned",
                                !.output = sanitizeNumericDot(sanRun.input)]
    /\ UNCHANGED <<layoutVars, pageVars, pureVars, prevRun, form, handlerBuild,
                   waitRun, printRun>>

SanSpec == SanInit /\ [][ApplySanitize]_vars

----------------------------------------------------------------------------
(* The form: edits, Agregar, Quitar *)

\* `disabled={!canAdd}` of the Agregar button
canAdd(f) ==
    IF Trim(f.ssid) = <<>> THEN FALSE
    ELSE IF f.isOpen THEN TRUE
    ELSE Len(Trim(f.password)) > 0

\* handleAdd without the password check
handleAddAnyPassword(f, q) ==
    IF Trim(f.ssid) = <<>>
    THEN [form |-> [f EXCEPT !.error = "Ingresa el SSID."], qrs |-> q]
    ELSE [form |-> NoForm,
          qrs |-> Append(q, [ssid |-> Trim(f.ssid), password |-> Trim(f.password),
                             isOpen |-> f.isOpen, networkType |-> f.networkType])]

\* handleAdd run on form f and list q: the form and the list it leaves
handleAdd(f, q) ==
    LET cleanedSsid == Trim(f.ssid)
        cleanedPassword == Trim(f.password)
        cleanedNetworkType == IF Trim(f.networkType) = <<>> THEN <<"5", ".", "0">>
                              ELSE Trim(f.networkType)
        finalNetworkType == IF sanitizeNumericDot(cleanedNetworkType) = <<>>
                            THEN cleanedNetworkType
                            ELSE sanitizeNumericDot(cleanedNetworkType)
    IN  IF cleanedSsid = <<>>
        THEN [form |-> [f EXCEPT !.error = "Ingresa el SSID."], qrs |-> q]
        ELSE IF ~f.isOpen /\ cleanedPassword = <<>>
        THEN [form |-> [f EXCEPT !.error = "Ingresa la contraseña o marca Red abierta."],
              qrs |-> q]
        ELSE [form |-> NoForm,
              qrs |-> Append(q, [ssid |-> cleanedSsid, password |-> cleanedPassword,
                                 isOpen |-> f.isOpen, networkType |-> finalNetworkType])]

\* onChange of the SSID input
EditSsid(t) ==
    /\ form' = [form EXCEPT !.ssid = t, !.error = ""]
    /\ UNCHANGED <<layoutVars, pageVars, pureVars, prevRun, handlerBuild, sanRun,
                   waitRun, printRun>>

\* onChange of the network-type input
EditNetworkType(t) ==
    /\ form' = [form EXCEPT !.networkType = sanitizeNumericDot(t), !.error = ""]
    /\ UNCHANGED <<layoutVars, pageVars, pureVars, prevRun, handlerBuild, sanRun,
                   waitRun, printRun>>

\* onChange of the password input, which is there while Red abierta is off
EditPassword(t) ==
    /\ ~form.isOpen
    /\ form' = [form EXCEPT !.password = t, !.error = ""]
    /\ UNCHANGED <<layoutVars, pageVars, pureVars, prevRun, handlerBuild, sanRun,
                   waitRun, printRun>>

\* onChange of the Red abierta checkbox
ToggleOpen ==
    /\ form' = [form EXCEPT !.isOpen = ~form.isOpen, !.error = ""]
    /\ UNCHANGED <<layoutVars, pageVars, pureVars, prevRun, handlerBuild, sanRun,
                   waitRun, printRun>>

\* a click on Agregar, which is enabled while canAdd holds
Agregar ==
    /\ canAdd(form)
    /\ Len(qrs) < MaxItems
    /\ form' = handleAdd(form, qrs).form
    /\ qrs' = handleAdd(form, qrs).qrs
    /\ UNCHANGED <<layoutVars, printIndex, reqs, downloads, pureVars, prevRun,
                   handlerBuild, sanRun, waitRun, printRun>>

\* the page as first rendered
FormInit == LayoutOff /\ PageOff /\ PureOff /\ UiOff

\* the texts typed are a blank and one with characters the payload escapes
FormSpec ==
    /\ FormInit
    /\ [][
      \/ \E t \in {<<" ">>, <<" ", "n", ";", "\\", " ">>} : EditSsid(t)
      \/ \E t \in {<<>>, <<"2", ".", "4">>} : EditNetworkType(t)
      \/ \E t \in {<<" ">>, <<"a", ":", "\"", ",">>} : EditPassword(t)
      \/ ToggleOpen
      \/ Agregar
      \/ \E idx \in 0..(MaxItems - 1) : Quitar(idx)
      ]_vars

----------------------------------------------------------------------------
(* generateValue applied to the item Agregar stores for a typed form *)

MaxTextLen == 2

\* the form after the SSID and the password were typed and Red abierta set
GenInit ==
    /\ LayoutOff
    /\ PageOff
    /\ PureOff
    /\ handlerBuild = "tryFinally" /\ sanRun = NoSanRun
    /\ waitRun = NoWaitRun /\ printRun = NoPrintRun
    /\ \E n \in 0..MaxTextLen, m \in 0..MaxTextLen, o \in BOOLEAN :
         \E s \in [1..n -> {" ", "a", ";", "\\", ":", "\""}],
            p \in [1..m -> {" ", "a", ";", "\\", ":", "\""}] :
           form = [NoForm EXCEPT !.ssid = s, !.password = p, !.isOpen = o]

GenSpec == GenInit /\ [][Agregar]_vars

----------------------------------------------------------------------------
(* waitForAllImages(doc, timeoutMs) *)

MaxImages == 3

\* an image is "loading" (img.complete false), "queued" (complete, its load or
\* error event not dispatched yet) or "delivered" (complete, event dispatched)

\* done() with only some image complete
doneSome(imgs) == \E k \in DOMAIN imgs : imgs[k] # "loading"

\* const done = () => images.every((img) => img.complete)
done(imgs) == \A k \in DOMAIN imgs : imgs[k] # "loading"

\* finish(), called by the timer or by an event handler
finish(w, by) ==
    IF w.settled THEN w
    ELSE [w EXCEPT !.settled = TRUE, !.resolveCalls = w.resolveCalls + 1,
                   !.promise = "fulfilled", !.at = by]

\* the call is about to run on a document (or on null) whose images are in
\* any state
WaitInit ==
    /\ LayoutOff
    /\ PageOff
    /\ PureOff
    /\ form = NoForm /\ handlerBuild = "tryFinally"
    /\ sanRun = NoSanRun /\ printRun = NoPrintRun
    /\ \E n \in 0..MaxImages, docOk \in BOOLEAN :
         \E imgs \in [1..n -> {"loading", "queued", "delivered"}] :
           /\ (~docOk => n = 0)
           /\ waitRun = [phase |-> "called", docOk |-> docOk, imgs |-> imgs,
                         listeners |-> [k \in 1..n |-> FALSE], timer |-> "none",
                         settled |-> FALSE, resolveCalls |-> 0,
                         promise |-> "none", at |-> "none"]

\* the synchronous part of the call: the early returns, or the promise with
\* its timer and its listeners
WaitCall ==
    /\ waitRun.phase = "called"
    /\ waitRun' =
         IF ~waitRun.docOk \/ Len(waitRun.imgs) = 0 \/ done(waitRun.imgs)
         THEN [waitRun EXCEPT !.phase = "returned", !.promise = "fulfilled",
                              !.at = "call"]
         ELSE [waitRun EXCEPT !.phase = "returned", !.promise = "pending",
                              !.timer = "armed",
                              !.listeners = [k \in DOMAIN waitRun.imgs |-> TRUE]]
    /\ UNCHANGED <<layoutVars, pageVars, pureVars, prevRun, form, handlerBuild,
                   sanRun, printRun>>

\* the browser finishes image k (loaded or failed): img.complete turns true
ImgFinish(k) ==
    /\ k \in DOMAIN waitRun.imgs
    /\ waitRun.imgs[k] = "loading"
    /\ waitRun' = [waitRun EXCEPT !.imgs[k] = "queued"]
    /\ UNCHANGED <<layoutVars, pageVars, pureVars, prevRun, form, handlerBuild,
                   sanRun, printRun>>

\* the load or error event of image k is dispatched; the { once: true }
\* handler, if attached, runs and is removed
ImgEvent(k) ==
    /\ k \in DOMAIN waitRun.imgs
    /\ waitRun.imgs[k] = "queued"
    /\ LET w == [waitRun EXCEPT !.imgs[k] = "delivered"]
       IN  waitRun' =
             IF ~w.listeners[k] THEN w
             ELSE IF done(w.imgs)
             THEN finish([w EXCEPT !.listeners[k] = FALSE,
                                   !.timer = IF w.timer = "armed" THEN "cleared"
                                             ELSE w.timer],
                         "event")
             ELSE [w EXCEPT !.listeners[k] = FALSE]
    /\ UNCHANGED <<layoutVars, pageVars, pureVars, prevRun, form, handlerBuild,
                   sanRun, printRun>>

\* setTimeout(finish, timeoutMs) fires
WaitTimer ==
    /\ waitRun.phase = "returned"
    /\ waitRun.timer = "armed"
    /\ waitRun' = finish([waitRun EXCEPT !.timer = "fired"], "timer")
    /\ UNCHANGED <<layoutVars, pageVars, pureVars, prevRun, form, handlerBuild,
                   sanRun, printRun>>

WaitSpec ==
    WaitInit /\ [][\/ WaitCall
                   \/ \E k \in 1..MaxImages : ImgFinish(k)
                   \/ \E k \in 1..MaxImages : ImgEvent(k)
                   \/ WaitTimer]_vars

----------------------------------------------------------------------------
(* handlePrintOne -> printStickerHtml: the sticker document, its embedded
   script and the caller's wait.  The timers of the sticker window run while
   the window exists; the print dialog may keep a window busy for any time,
   so timers of different chains fire in any order. *)

\* handlePrintOne's deferred task has captured the QR and is about to call
\* printStickerHtml
PrintInit ==
    /\ LayoutOff
    /\ PageOff
    /\ PureOff
    /\ form = NoForm /\ handlerBuild = "tryFinally"
    /\ sanRun = NoSanRun /\ waitRun = NoWaitRun
    /\ printRun = [phase |-> "requested", path |-> "none", loading |-> 0,
                   loadListener |-> FALSE, go30 |-> "none", go700 |-> "none",
                   printTimers |-> 0, closeTimers |-> 0, gone |-> FALSE,
                   wait |-> "none", removeTimer |-> "none",
                   scriptPrints |-> 0, parentPrints |-> 0]

\* printStickerHtml up to its await: window.open gives a popup or null (then
\* the hidden iframe), the document is written and its script runs in the
\* sticker window: go() at once when every image is complete, otherwise the
\* load listener and the 700 ms timer.  waitForAllImages sees the same
\* images: when all are complete the caller goes on in the same task.
\* `loading` of the document's three images (logo, QR, wifi) are not complete
printStickerHtml(path, loading) ==
    /\ printRun.phase = "requested"
    /\ LET allDone == loading = 0
           written == [printRun EXCEPT
                          !.phase = "written", !.path = path,
                          !.loading = loading,
                          !.loadListener = ~allDone,
                          !.go700 = IF allDone THEN "none" ELSE "armed",
                          !.printTimers = IF allDone THEN 1 ELSE 0]
       IN  printRun' =
             IF ~allDone THEN [written EXCEPT !.wait = "pending"]
             ELSE IF path = "popup" THEN [written EXCEPT !.wait = "resolved"]
             ELSE [written EXCEPT !.wait = "resolved", !.parentPrints = 1,
                                  !.removeTimer = "armed"]
    /\ UNCHANGED <<layoutVars, pageVars, pureVars, prevRun, form, handlerBuild,
                   sanRun, waitRun>>

\* an image of the sticker document completes; after the last one the
\* window's load event is dispatched: `setTimeout(go, 30)`
StickerImgDone ==
    /\ printRun.phase = "written"
    /\ printRun.loading > 0
    /\ ~printRun.gone
    /\ printRun' =
         IF printRun.loading > 1
         THEN [printRun EXCEPT !.loading = printRun.loading - 1]
         ELSE [printRun EXCEPT
                  !.loading = 0, !.loadListener = FALSE,
                  !.go30 = IF printRun.loadListener THEN "armed" ELSE "none"]
    /\ UNCHANGED <<layoutVars, pageVars, pureVars, prevRun, form, handlerBuild,
                   sanRun, waitRun>>

\* `setTimeout(go, 30)` or `setTimeout(go, 700)` fires: go() arms the 60 ms
\* print timer
GoTimer(which) ==
    /\ ~printRun.gone
    /\ \/ which = "go30" /\ printRun.go30 = "armed"
          /\ printRun' = [printRun EXCEPT !.go30 = "fired",
                                          !.printTimers = printRun.printTimers + 1]
       \/ which = "go700" /\ printRun.go700 = "armed"
          /\ printRun' = [printRun EXCEPT !.go700 = "fired",
                                          !.printTimers = printRun.printTimers + 1]
    /\ UNCHANGED <<layoutVars, pageVars, pureVars, prevRun, form, handlerBuild,
                   sanRun, waitRun>>

\* the 60 ms timer of go(): window.print(), then the 250 ms close timer
PrintTimer ==
    /\ ~printRun.gone
    /\ printRun.printTimers > 0
    /\ printRun' = [printRun EXCEPT !.printTimers = printRun.printTimers - 1,
                                    !.scriptPrints = printRun.scriptPrints + 1,
                                    !.closeTimers = printRun.closeTimers + 1]
    /\ UNCHANGED <<layoutVars, pageVars, pureVars, prevRun, form, handlerBuild,
                   sanRun, waitRun>>

\* the 250 ms timer of go(): window.close() closes the popup; in the iframe
\* it closes nothing
CloseTimer ==
    /\ ~printRun.gone
    /\ printRun.closeTimers > 0
    /\ printRun' = [printRun EXCEPT !.closeTimers = printRun.closeTimers - 1,
                                    !.gone = (printRun.path = "popup")]
    /\ UNCHANGED <<layoutVars, pageVars, pureVars, prevRun, form, handlerBuild,
                   sanRun, waitRun>>

\* waitForAllImages resolves (last image event or its 800 ms timeout) and
\* printStickerHtml goes on: the popup path returns, the iframe path calls
\* iframe.contentWindow.print() and arms the 800 ms removal
WaitResolved ==
    /\ printRun.wait = "pending"
    /\ printRun' =
         IF printRun.path = "popup" THEN [printRun EXCEPT !.wait = "resolved"]
         ELSE [printRun EXCEPT !.wait = "resolved",
                               !.parentPrints = printRun.parentPrints + 1,
                               !.removeTimer = "armed"]
    /\ UNCHANGED <<layoutVars, pageVars, pureVars, prevRun, form, handlerBuild,
                   sanRun, waitRun>>

\* the 800 ms timer of the iframe path: document.body.removeChild(iframe)
RemoveTimer ==
    /\ printRun.removeTimer = "armed"
    /\ printRun' = [printRun EXCEPT !.removeTimer = "fired", !.gone = TRUE]
    /\ UNCHANGED <<layoutVars, pageVars, pureVars, prevRun, form, handlerBuild,
                   sanRun, waitRun>>

PrintSpec ==
    /\ PrintInit
    /\ [][
      \/ \E path \in {"popup", "iframe"}, loading \in 0..3 :
           printStickerHtml(path, loading)
      \/ StickerImgDone
      \/ \E which \in {"go30", "go700"} : GoTimer(which)
      \/ PrintTimer
      \/ CloseTimer
      \/ WaitResolved
      \/ RemoveTimer
      ]_vars

----------------------------------------------------------------------------
(* Properties of the layout fitter *)

\* every item was painted: drawImage / fillText ignore non-finite arguments
AllPainted ==
    /\ ~IsNaN(drawn.logoH)
    /\ ~IsNaN(drawn.qrTop)
    /\ ~IsNaN(drawn.passY) /\ ~IsNaN(drawn.ssidY) /\ ~IsNaN(drawn.netY)
    /\ ~IsNaN(drawn.footerY) /\ ~IsNaN(drawn.wifiH)

\* logo, QR, password, SSID, network, footer icon: each ends where or before
\* the next one starts
StackedInOrder ==
    /\ drawn.logoTop + drawn.logoH <= drawn.qrTop
    /\ drawn.qrTop + drawn.qrSize <= drawn.passY
    /\ drawn.passY + drawn.passPx <= drawn.ssidY
    /\ drawn.ssidY + drawn.ssidPx <= drawn.netY
    /\ drawn.netY + drawn.netPx <= drawn.footerY

WithinPadding ==
    /\ drawn.logoTop >= Cfg.padTop
    /\ drawn.footerY + drawn.wifiH <= Cfg.labelH - Cfg.padBottom
    /\ drawn.netY + drawn.netPx <= Cfg.labelH - Cfg.padBottom

\* C1 (as claimed): in every drawn sticker the six items are pairwise
\* non-overlapping in top-to-bottom order and lie within the padding.
C1_NoOverlapWithinPadding ==
    (pc = "returned" /\ AllPainted /\ passLen > 0 /\ ssidLen > 0 /\ netLen > 0)
        => (StackedInOrder /\ WithinPadding)

\* C2 (as claimed): the QR side length that is drawn is never below the
\* floor of the shrink test (360 portrait, 310 landscape).
C2_QrNeverBelowFloor ==
    pc \in {"rotate", "returned"} => drawn.qrSize >= Cfg.qrFloor

\* C3: the font size of every fitted or drawn line is at least that line's
\* minPx, and the starting candidates never drop below their own floors.
C3_FontSizesAboveFloors ==
    /\ passStartPx >= Cfg.passStartFloor
    /\ ssidStartPx >= Cfg.ssidStartFloor
    /\ netStartPx >= Cfg.netStartFloor
    /\ (lastFit # NoFit =>
          /\ lastFit.passPx >= Cfg.passMinPx
          /\ lastFit.ssidPx >= Cfg.ssidMinPx
          /\ lastFit.netPx >= Cfg.netMinPx)
    /\ (pc \in {"rotate", "returned"} =>
          /\ drawn.passPx >= Cfg.passMinPx
          /\ drawn.ssidPx >= Cfg.ssidMinPx
          /\ drawn.netPx >= Cfg.netMinPx)

\* a sticker whose loop never fitted: the start sizes were clamped at their
\* floors and the long SSID is drawn at its minPx
C3_Witness ==
    /\ pc = "returned"
    /\ i = LoopBound
    /\ passStartPx = Cfg.passStartFloor
    /\ ssidStartPx = Cfg.ssidStartFloor
    /\ netStartPx = Cfg.netStartFloor
    /\ drawn.ssidPx = Cfg.ssidMinPx
    /\ drawn.passPx > Cfg.passMinPx

\* progress measure of a run: the loop counter, then draw, rotate, return
Rank ==
    CASE pc = "pack" -> i
      [] pc = "draw" -> LoopBound + 1
      [] pc = "rotate" -> LoopBound + 2
      [] OTHER -> LoopBound + 3

\* C4: with its images loaded the build always ends with a sticker: the loop
\* counter never passes 18, every step of the synchronous body makes progress
\* towards the return (so no run loops forever), control is always at one of
\* the body's steps (none of which can raise), and the returned sticker is
\* drawn with the loop's final qrSize and gap whether or not the fit test
\* ever succeeded.
C4_AlwaysTerminatesWithSticker ==
    /\ [](/\ i <= 18
          /\ Rank <= 21
          /\ pc \in {"pack", "draw", "rotate", "returned"}
          /\ (pc = "returned" =>
                /\ result # NullCanvas
                /\ drawn.qrSize = qrSize
                /\ drawn.gapQrText = gapQrText))
    /\ [][Rank' > Rank]_vars

\* a returned sticker whose fit test failed in all 18 iterations
C4_Witness ==
    /\ pc = "returned"
    /\ ~brokeOut
    /\ i = 18
    /\ result # NullCanvas

\* the spec's scenario: "hunter2" / "Red_Cliente_23" / "5.0", decoded images
Scenario5 ==
    /\ passLen = 7 /\ ssidLen = 14 /\ netLen = 3
    /\ logoImg.h > 0 /\ logoImg.w > 0 /\ wifiImg.h > 0

\* C5 (as claimed): for the scenario the loop leaves through its fit test
\* before the 18 iterations are used up, the QR is at or above its floor and
\* no two drawn elements overlap.
C5_ScenarioConverges ==
    (pc = "returned" /\ Scenario5) =>
        /\ brokeOut
        /\ i < LoopBound
        /\ drawn.qrSize >= Cfg.qrFloor
        /\ StackedInOrder

\* no candidate size startPx, startPx-2, ... above minPx makes the text fit
TooWide(len, weight, startPx, minPx) ==
    \A s \in (minPx + 1)..startPx :
        (startPx - s) % 2 = 0 => ~TextFits(len, weight, s, maxTextW)

\* C6: a line that is too wide at every candidate size is drawn at exactly
\* its floor minPx, and the sticker is still returned.
C6_TooWideDrawnAtFloor ==
    pc = "returned" =>
        /\ result # NullCanvas
        /\ (TooWide(passLen, 900, passStartPx, Cfg.passMinPx)
              => drawn.passPx = Cfg.passMinPx)
        /\ (TooWide(ssidLen, 800, ssidStartPx, Cfg.ssidMinPx)
              => drawn.ssidPx = Cfg.ssidMinPx)
        /\ (TooWide(netLen, 900, netStartPx, Cfg.netMinPx)
              => drawn.netPx = Cfg.netMinPx)

\* an 80-character SSID that overflows even at the floor size, on a sticker
\* that was returned
C6_Witness ==
    /\ pc = "returned"
    /\ ssidLen = 80
    /\ ~TextFits(ssidLen, 800, Cfg.ssidMinPx, maxTextW)
    /\ ssidStartPx > Cfg.ssidMinPx
    /\ drawn.ssidPx = Cfg.ssidMinPx
    /\ result # NullCanvas

----------------------------------------------------------------------------
(* Properties of handleDownload *)

\* the QR-only file of request r
QrOnlyFile(r, rec) ==
    [req |-> r, kind |-> "qr", qr |-> rec.qrDataUrl,
     pass |-> <<>>, ssid |-> <<>>, net |-> <<>>,
     name |-> safeFilename(rec.item.ssid)]

\* C7: the first image of a build that fails to load makes the whole build
\* fail (rejected, no sticker), and in the same task handleDownload hands
\* the browser the QR-only PNG under safeFilename(ssid) and resets printIndex.
C7_ImageFailureFallsBackToQr ==
    [][\A r \in Requests : \A k \in ImageKeys :
          (reqs[r].imgs[k] = "pending" /\ reqs'[r].imgs[k] = "failed") =>
              /\ reqs'[r].phase = "done"
              /\ reqs'[r].build = "rejected"
              /\ reqs'[r].qrDataUrl # NoUrl
              /\ downloads' = Append(downloads, QrOnlyFile(r, reqs[r]))
              /\ printIndex' = NoIndex]_vars

\* a request whose QR image failed after the logo had loaded, finished with
\* the QR-only file
C7_Witness ==
    \E r \in Requests :
        /\ reqs[r].phase = "done"
        /\ reqs[r].build = "rejected"
        /\ reqs[r].imgs["qr"] = "failed"
        /\ \E n \in DOMAIN downloads :
              /\ downloads[n].req = r
              /\ downloads[n].kind = "qr"
              /\ downloads[n].qr = reqs[r].qrDataUrl
              /\ downloads[n].name = safeFilename(reqs[r].item.ssid)

\* C8 (as claimed): without a 2D context the build fails with an error.
C8_NoContextRaisesError ==
    \A r \in Requests :
        (reqs[r].phase = "done" /\ ~reqs[r].ctxOk) => reqs[r].build = "rejected"

\* C8 (amended): without a 2D context the build returns null (its promise is
\* fulfilled, not rejected) before any image load is started, and the caller
\* downloads the QR-only file.
C8_NoContextReturnsNull ==
    \A r \in Requests :
        ~reqs[r].ctxOk =>
            /\ reqs[r].phase = "done"
            /\ reqs[r].build = "null"
            /\ ~reqs[r].loadsStarted
            /\ \A k \in ImageKeys : reqs[r].imgs[k] = "none"
            /\ \E n \in DOMAIN downloads : downloads[n] = QrOnlyFile(r, reqs[r])

\* a request that found no 2D context and is finished
C8_Witness ==
    \E r \in Requests :
        /\ ~reqs[r].ctxOk
        /\ reqs[r].phase = "done"
        /\ reqs[r].qrDataUrl # NoUrl

\* C9 (as claimed): every downloaded file belongs to one item: its QR encodes
\* generateValue of the item whose texts are drawn and whose SSID names it.
C9_EachFileIsOfOneItem ==
    \A n \in DOMAIN downloads :
        \E it \in Items :
            /\ downloads[n].qr = generateValue(it)
            /\ downloads[n].name = safeFilename(it.ssid)
            /\ (downloads[n].kind = "sticker" =>
                  /\ downloads[n].pass = passTextOf(it)
                  /\ downloads[n].ssid = it.ssid
                  /\ downloads[n].net = it.networkType)

\* C10 (as claimed): a build that waits for its images always stops waiting.
C10_ImageWaitAlwaysEnds ==
    \A r \in Requests :
        (reqs[r].phase = "loading") ~> (reqs[r].phase = "done")

----------------------------------------------------------------------------
(* Further properties of the layout fitter *)

\* C11: every returned sticker image is LABEL_OUT_PX = 1000 x 600, on every
\* returning path, rotated or not, whether or not the rotated surface exists
C11_OutputAlways1000x600 ==
    pc = "returned" => result.w = LABEL_OUT_PX.w /\ result.h = LABEL_OUT_PX.h

\* C12 as claimed: an empty line is drawn at (and stacks with) its floor minPx
C12_EmptyLineAtFloor ==
    pc = "returned" =>
        /\ passLen = 0 => drawn.passPx = Cfg.passMinPx
        /\ ssidLen = 0 => drawn.ssidPx = Cfg.ssidMinPx
        /\ netLen = 0 => drawn.netPx = Cfg.netMinPx

\* C12: an empty password, SSID or network text is accepted (the run packs,
\* draws and returns); measuring 0 wide it passes the first width test, so the
\* line is sized, in the loop's stack and in the draw, at the current start
\* size, which lies above the floor minPx
C12_EmptyLineAtStartSize ==
    /\ pc = "pack" /\ i > 0 =>
        /\ passLen = 0 => lastFit.passPx > Cfg.passMinPx
        /\ ssidLen = 0 => lastFit.ssidPx > Cfg.ssidMinPx
        /\ netLen = 0 => lastFit.netPx > Cfg.netMinPx
    /\ pc = "returned" =>
        /\ passLen = 0 => drawn.passPx = passStartPx /\ passStartPx > Cfg.passMinPx
        /\ ssidLen = 0 => drawn.ssidPx = ssidStartPx /\ ssidStartPx > Cfg.ssidMinPx
        /\ netLen = 0 => drawn.netPx = netStartPx /\ netStartPx > Cfg.netMinPx

\* a sticker with all three texts empty was drawn and returned
C12_Witness ==
    /\ pc = "returned"
    /\ passLen = 0 /\ ssidLen = 0 /\ netLen = 0
    /\ AllPainted
    /\ drawn.passPx = Cfg.passStartPx0
    /\ result # NullCanvas

\* the text stack as the bottom-up pass laid it out, before the guard
UnshiftedStack ==
    TextStack(drawn.footerY, drawn.passPx, drawn.ssidPx, drawn.netPx)

\* C18: when the stacked text block still overlaps QR bottom + gapQrText, the
\* guard moves all three lines upward (to smaller y) by the overlap amount,
\* keeping their spacing
C18_GuardMovesBlockUp ==
    (pc = "returned" /\ AllPainted /\ drawn.shiftUp > 0) =>
        /\ drawn.shiftUp =
             drawn.qrTop + drawn.qrSize + drawn.gapQrText - UnshiftedStack.passTop
        /\ drawn.passY = UnshiftedStack.passTop - drawn.shiftUp
        /\ drawn.ssidY = UnshiftedStack.ssidTop - drawn.shiftUp
        /\ drawn.netY = UnshiftedStack.netTop - drawn.shiftUp

\* C19: in every drawn sticker the drawn top of the password line is at or
\* below QR bottom + final gapQrText
C19_TextNeverAboveQrBottom ==
    (pc = "returned" /\ ~IsNaN(drawn.passY)) =>
        drawn.passY >= drawn.qrTop + drawn.qrSize + gapQrText

\* a layout that never passed the fit test, drawn with the guard active
C19_Witness ==
    /\ pc = "returned"
    /\ ~brokeOut
    /\ AllPainted
    /\ drawn.shiftUp > 0
    /\ UnshiftedStack.passTop < drawn.qrTop + drawn.qrSize + gapQrText

\* the kinds of quantity an iteration reduced
QrShrunk == qrSize' < qrSize

GapShrunk == gapQrText' < gapQrText

StartsShrunk ==
    \/ passStartPx' < passStartPx
    \/ ssidStartPx' < ssidStartPx
    \/ netStartPx' < netStartPx

\* the priority order, no increase, and logo / footer-icon sizes untouched
ShrinkOrder ==
    /\ GapShrunk => ~(qrSize > Cfg.qrFloor)
    /\ StartsShrunk => ~(qrSize > Cfg.qrFloor) /\ ~(gapQrText > 26)
    /\ qrSize' <= qrSize /\ gapQrText' <= gapQrText
    /\ passStartPx' <= passStartPx
    /\ ssidStartPx' <= ssidStartPx
    /\ netStartPx' <= netStartPx
    /\ logoH' = logoH /\ wifiH' = wifiH

\* C20 as claimed: each non-fitting iteration shrinks exactly one kind of
\* quantity, in the priority order qrSize, gapQrText, start sizes
C20_ExactlyOneKindShrinks ==
    [][(pc = "pack" /\ i' = i + 1) =>
          /\ ShrinkOrder
          /\ \/ QrShrunk /\ ~GapShrunk /\ ~StartsShrunk
             \/ ~QrShrunk /\ GapShrunk /\ ~StartsShrunk
             \/ ~QrShrunk /\ ~GapShrunk /\ StartsShrunk]_vars

\* C20: each non-fitting iteration shrinks at most one kind of quantity, in
\* the priority order qrSize, gapQrText, start sizes, and shrinks nothing only
\* when qrSize and gapQrText are not above their thresholds and the three
\* start sizes are at their floors
C20_AtMostOneKindShrinks ==
    [][(pc = "pack" /\ i' = i + 1) =>
          /\ ShrinkOrder
          /\ \/ QrShrunk /\ ~GapShrunk /\ ~StartsShrunk
             \/ ~QrShrunk /\ GapShrunk /\ ~StartsShrunk
             \/ ~QrShrunk /\ ~GapShrunk /\ StartsShrunk
             \/ /\ ~QrShrunk /\ ~GapShrunk /\ ~StartsShrunk
                /\ ~(qrSize > Cfg.qrFloor) /\ ~(gapQrText > 26)
                /\ passStartPx = Cfg.passStartFloor
                /\ ssidStartPx = Cfg.ssidStartFloor
                /\ netStartPx = Cfg.netStartFloor]_vars

\* a loop that went through all three kinds of reduction
C20_Witness ==
    /\ pc = "pack"
    /\ qrSize < Cfg.qrSize0
    /\ gapQrText < Cfg.gapQrText0
    /\ passStartPx < Cfg.passStartPx0

----------------------------------------------------------------------------
(* Properties of fitTextSize *)

\* C13: for fixed text, weight, startPx and minPx the size returned by
\* fitTextSize is monotone in the available width
C13_FitMonotoneInWidth ==
    (fitRun.phase = "out" /\ fitRun.maxWidth1 <= fitRun.maxWidth2) =>
        fitRun.size1 <= fitRun.size2

\* a narrower width gave a strictly smaller size, both above the floor
C13_Witness ==
    /\ fitRun.phase = "out"
    /\ fitRun.maxWidth1 < fitRun.maxWidth2
    /\ fitRun.minPx < fitRun.size1
    /\ fitRun.size1 < fitRun.size2
    /\ fitRun.size2 < fitRun.startPx

----------------------------------------------------------------------------
(* Properties of repeated renders *)

----------------------------------------------------------------------------
(* Properties of rotateCanvas90CWTo *)

\* a quarter turn counter-clockwise of bitmap b
Rotate90CCW(b) ==
    [w |-> b.h, h |-> b.w,
     px |-> [p \in Pixels(b.h, b.w) |-> b.px[<<b.w - 1 - p[2], p[1]>>]]]

\* C15: with outW = src.height and outH = src.width every source pixel (x, y)
\* lands on exactly one output pixel (outW-1-y, x) inside the output, every
\* output pixel is hit, and a quarter turn back reproduces the original
C15_RotationIsPixelPermutation ==
    rotRun.phase = "out" =>
        LET src == rotRun.src
            out == rotRun.out
        IN  /\ out.w = src.h /\ out.h = src.w
            /\ \A q \in Pixels(src.w, src.h) :
                 LET d == <<out.w - 1 - q[2], q[1]>>
                 IN  /\ d \in Pixels(out.w, out.h)
                     /\ DevicePixel(q, out.w) = d
                     /\ out.px[d] = src.px[q]
            /\ \A d \in Pixels(out.w, out.h) : Cardinality(Hits(src, out.w, d)) = 1
            /\ Rotate90CCW(out) = src

\* a 2 x 3 bitmap that is not uniform was rotated into a 3 x 2 bitmap
C15_Witness ==
    /\ rotRun.phase = "out"
    /\ rotRun.src.w = 2 /\ rotRun.src.h = 3
    /\ rotRun.out.w = 3 /\ rotRun.out.h = 2
    /\ rotRun.src.px[<<0, 0>>] # rotRun.src.px[<<0, 2>>]
    /\ rotRun.out.px[<<2, 0>>] # rotRun.out.px[<<0, 0>>]

----------------------------------------------------------------------------
(* Properties of getBackgroundBoundsFromImage *)

\* the image of the call is white with a centred 10 x 10 black square, and
\* the canvas can be read
SquareScenario ==
    /\ boundsRun.phase = "out"
    /\ boundsRun.env = "ok"
    /\ boundsRun.img.w >= SquareSide /\ boundsRun.img.h >= SquareSide
    /\ boundsRun.img = SquareImage(boundsRun.img.w, boundsRun.img.h)

SquareBox ==
    [x |-> SquareOrigin(boundsRun.img.w, boundsRun.img.h)[1],
     y |-> SquareOrigin(boundsRun.img.w, boundsRun.img.h)[2],
     w |-> SquareSide, h |-> SquareSide]

\* no pixel of a corner sample is a pixel of the square
CornerSamplesMissSquare ==
    \A c \in 1..4 :
      \A dx \in 0..(SampleSide(boundsRun.img) - 1), dy \in 0..(SampleSide(boundsRun.img) - 1) :
        ~InSquare(<<CornerRects(boundsRun.img)[c][1] + dx,
                    CornerRects(boundsRun.img)[c][2] + dy>>,
                  boundsRun.img.w, boundsRun.img.h)

\* C16 as claimed: for a white image of any size with a centred 10 x 10
\* black square the result is exactly the square's bounding box
C16_SquareFoundAtAnySize ==
    SquareScenario => boundsRun.result = SquareBox

\* C16: for a white image with a centred 10 x 10 black square whose corner
\* samples contain no pixel of the square (width or height at least 34) the
\* result is exactly the square's bounding box, not the full image bounds
C16_SquareFoundWhenCornersAreBackground ==
    /\ (SquareScenario /\ CornerSamplesMissSquare) =>
          /\ boundsRun.result = SquareBox
          /\ boundsRun.result # FullBounds(boundsRun.img)
    /\ (SquareScenario /\ (boundsRun.img.w >= 34 \/ boundsRun.img.h >= 34)) =>
          CornerSamplesMissSquare

\* the square was found in an image smaller than 34 pixels in one direction
C16_Witness ==
    /\ SquareScenario
    /\ CornerSamplesMissSquare
    /\ boundsRun.img.w = 34 /\ boundsRun.img.h = 10
    /\ boundsRun.result = [x |-> 12, y |-> 0, w |-> 10, h |-> 10]

\* the pixels of the image the scan classifies as foreground against bg
ForegroundPixels(bg) ==
    {p \in Pixels(boundsRun.img.w, boundsRun.img.h) :
       IsForeground(boundsRun.img.px[p], bg)}

\* C17: the result is the full image bounds (no context, a read fails, no
\* opaque corner pixel, no foreground pixel) or else the tight bounding box of
\* the foreground pixels, inside the image
C17_FullBoundsOrTightBox ==
    boundsRun.phase = "out" =>
        LET res  == boundsRun.result
            sum  == CornerSums(boundsRun.img, 1)
            fg   == ForegroundPixels(Background(sum))
            full == [x |-> 0, y |-> 0, w |-> boundsRun.img.w, h |-> boundsRun.img.h]
        IN  IF boundsRun.env # "ok" THEN res = full
            ELSE IF sum.n = 0 THEN res = full
            ELSE IF fg = {} THEN res = full
            ELSE /\ \A p \in fg :
                      /\ res.x <= p[1] /\ p[1] < res.x + res.w
                      /\ res.y <= p[2] /\ p[2] < res.y + res.h
                 /\ \E p \in fg : p[1] = res.x
                 /\ \E p \in fg : p[1] = res.x + res.w - 1
                 /\ \E p \in fg : p[2] = res.y
                 /\ \E p \in fg : p[2] = res.y + res.h - 1
                 /\ res.x >= 0 /\ res.y >= 0
                 /\ res.x + res.w <= boundsRun.img.w
                 /\ res.y + res.h <= boundsRun.img.h

\* a box smaller than the image that encloses a background pixel between
\* foreground pixels
C17_Witness ==
    /\ boundsRun.phase = "out"
    /\ boundsRun.env = "ok"
    /\ boundsRun.img.w = 5 /\ boundsRun.img.h = 1
    /\ boundsRun.result = [x |-> 1, y |-> 0, w |-> 3, h |-> 1]
    /\ boundsRun.img.px[<<0, 0>>] = White
    /\ boundsRun.img.px[<<2, 0>>] = White
    /\ boundsRun.img.px[<<1, 0>>] = Black
    /\ boundsRun.img.px[<<3, 0>>] = Black

----------------------------------------------------------------------------
(* Properties of the packing loop's exits *)

\* the fit test evaluated on what was drawn
DrawnPassesFitTest ==
    /\ AllPainted
    /\ drawn.passY >= drawn.qrTop + drawn.qrSize + drawn.gapQrText
    /\ drawn.qrTop + drawn.qrSize <= drawn.passY
    /\ (drawn.qrTop - Cfg.padTop) + drawn.qrSize + drawn.gapQrText
         + (drawn.footerY - drawn.passY) + drawn.wifiH <= availH

\* C21: the loop is left at the first iteration that passes the fit test,
\* with no size changed in that iteration; after such a break the drawn
\* layout passes the same test and the guard shift is 0
C21_BreakAtFirstFitAndDrawnFits ==
    /\ []((pc \in {"rotate", "returned"} /\ brokeOut) =>
             (DrawnPassesFitTest /\ drawn.shiftUp = 0
                /\ drawn.qrSize = qrSize /\ drawn.gapQrText = gapQrText))
    /\ [][(pc = "pack" /\ i < LoopBound /\ LoopFit.ok) =>
             /\ pc' = "draw" /\ brokeOut'
             /\ UNCHANGED <<i, qrSize, gapQrText, passStartPx, ssidStartPx,
                            netStartPx>>]_vars
    /\ [][(pc = "pack" /\ pc' = "draw" /\ brokeOut') => LoopFit.ok]_vars

\* a loop that was left through the break after it had shrunk something
C21_Witness ==
    /\ pc = "returned"
    /\ brokeOut
    /\ i > 0
    /\ qrSize < Cfg.qrSize0
    /\ drawn.shiftUp = 0
    /\ AllPainted

\* C30: when the fit test failed in every iteration, at the end of the loop
\* qrSize is not above its threshold, gapQrText is not above 26 and the three
\* start sizes are at their floors
C30_BoundNeverCutsShrinking ==
    (pc \in {"draw", "rotate", "returned"} /\ ~brokeOut) =>
        /\ ~(qrSize > Cfg.qrFloor)
        /\ ~(gapQrText > 26)
        /\ passStartPx = Cfg.passStartFloor
        /\ ssidStartPx = Cfg.ssidStartFloor
        /\ netStartPx = Cfg.netStartFloor
        /\ (build = "portrait" =>
              passStartPx = 60 /\ ssidStartPx = 40 /\ netStartPx = 52)
        /\ (build = "landscape" =>
              passStartPx = 52 /\ ssidStartPx = 34 /\ netStartPx = 44)

\* the portrait loop ended without a break after its 18th iteration made the
\* last reduction
C30_Witness ==
    /\ pc = "draw"
    /\ ~brokeOut
    /\ build = "portrait"
    /\ i = 18
    /\ qrSize = 356 /\ gapQrText = 26
    /\ netStartPx = 52

----------------------------------------------------------------------------
(* Further properties of fitTextSize *)

\* the candidates startPx, startPx - 2, ... above minPx
FitCandidates ==
    {c \in (fitRun.minPx + 1)..fitRun.startPx : (fitRun.startPx - c) % 2 = 0}

FittingCandidates ==
    {c \in FitCandidates :
       TextFits(fitRun.len, fitRun.weight, c, fitRun.maxWidth1)}

\* C22: fitTextSize returns the largest candidate startPx, startPx - 2, ...
\* above minPx whose text width is <= maxWidth, or minPx when there is none
\* (also when startPx <= minPx); the result lies in [minPx, max(startPx, minPx)]
C22_LargestFittingCandidate ==
    fitRun.phase = "out" =>
        /\ fitRun.size1 = IF FittingCandidates = {} THEN fitRun.minPx
                          ELSE SetMax(FittingCandidates)
        /\ fitRun.minPx <= fitRun.size1
        /\ fitRun.size1 <= Max2(fitRun.startPx, fitRun.minPx)

\* a candidate strictly between the floor and the start size was returned
\* after odd-distance candidates failed
C22_Witness ==
    /\ fitRun.phase = "out"
    /\ fitRun.minPx < fitRun.size1
    /\ fitRun.size1 < fitRun.startPx
    /\ (fitRun.startPx - fitRun.minPx) % 2 = 1
    /\ ~TextFits(fitRun.len, fitRun.weight, fitRun.size1 + 2, fitRun.maxWidth1)

----------------------------------------------------------------------------
(* Further properties of handleDownload *)

\* the files request r handed to the browser
DownloadsOf(r) == {n \in DOMAIN downloads : downloads[n].req = r}

\* C28: each Descargar click on an existing item (one that is still in its
\* row when the request is over) results in exactly one download named
\* safeFilename(ssid), also when another download was requested before the
\* previous one finished
C28_OneDownloadPerClick ==
    \A r \in Requests :
        (reqs[r].phase = "done" /\ ItemAt(qrs, reqs[r].index) = reqs[r].item) =>
            /\ Cardinality(DownloadsOf(r)) = 1
            /\ \A n \in DownloadsOf(r) :
                 downloads[n].name = safeFilename(reqs[r].item.ssid)

\* a deferred task that has run to its end, normally or by an exception
Ended == {"done", "threw"}

\* C27: every handleDownload request whose deferred task runs ends with
\* printIndex reset to null, on every path: nothing captured, item missing,
\* sticker built, fallback, or an exception while triggering the download
C27_EndedTaskResetsPrintIndex ==
    [][\A r \in Requests :
          (reqs[r].phase \notin Ended /\ reqs'[r].phase \in Ended)
              => printIndex' = NoIndex]_vars

----------------------------------------------------------------------------
(* Properties of sanitizeNumericDot *)

\* C24: the result holds only digits and at most a single '.', is the input
\* with characters removed (kept characters in their original order), and
\* sanitising it again changes nothing
C24_DigitsOneDotIdempotent ==
    sanRun.phase = "returned" =>
        LET out == sanRun.output
        IN  /\ \A k \in DOMAIN out :
                 out[k] \in {"0", "1", "2", "3", "4", "5", "6", "7", "8", "9", "."}
            /\ Cardinality({k \in DOMAIN out : out[k] = "."}) <= 1
            /\ \E keep \in SUBSET DOMAIN sanRun.input :
                 out = SelectSeq([k \in DOMAIN sanRun.input |->
                                     IF k \in keep THEN sanRun.input[k] ELSE "x"],
                                 LAMBDA c : c # "x")
            /\ sanitizeNumericDot(out) = out

----------------------------------------------------------------------------
(* Properties of the form *)

\* C25: after any sequence of form edits, Agregar and Quitar every stored
\* item has a non-empty trimmed SSID and is open or has a non-empty trimmed
\* password; handleAdd run on a form it rejects leaves qrs as it is and sets
\* an error message
C25_StoredItemsValid ==
    /\ \A k \in DOMAIN qrs :
         /\ Trim(qrs[k].ssid) # <<>>
         /\ (qrs[k].isOpen \/ Trim(qrs[k].password) # <<>>)
    /\ (~canAdd(form) =>
           /\ handleAdd(form, qrs).qrs = qrs
           /\ handleAdd(form, qrs).form.error # "")

\* an item is stored and the form now holds a blank SSID
C25_Witness ==
    /\ Len(qrs) = 2
    /\ \E k \in DOMAIN qrs : ~qrs[k].isOpen
    /\ form.ssid = <<" ">>
    /\ ~canAdd(form)

----------------------------------------------------------------------------
(* Properties of generateValue *)

\* e is t with one backslash put before each of its special characters and
\* nothing else added or changed
AddedBackslashes(t, e) ==
    LET pos(k) == k + Cardinality({j \in 1..k : t[j] \in {"\\", ";", ",", ":", "\""}})
    IN  /\ Len(e) = IF t = <<>> THEN 0 ELSE pos(Len(t))
        /\ \A k \in DOMAIN t :
             /\ e[pos(k)] = t[k]
             /\ (t[k] \in {"\\", ";", ",", ":", "\""} => e[pos(k) - 1] = "\\")

\* what a reader of the payload sees: the fields ended by an unescaped ';',
\* a backslash making the character after it part of the field's text
RECURSIVE FieldsOf(_, _, _)
FieldsOf(s, cur, acc) ==
    IF s = <<>> THEN (IF cur = <<>> THEN acc ELSE Append(acc, cur \o <<"unterminated">>))
    ELSE IF Head(s) = "\\" /\ Len(s) >= 2
    THEN FieldsOf(Tail(Tail(s)), Append(cur, s[2]), acc)
    ELSE IF Head(s) = ";" THEN FieldsOf(Tail(s), <<>>, Append(acc, cur))
    ELSE FieldsOf(Tail(s), Append(cur, Head(s)), acc)

----------------------------------------------------------------------------
(* Properties of waitForAllImages *)

\* every image of the waited-for document is complete
AllComplete(w) == \A k \in DOMAIN w.imgs : w.imgs[k] # "loading"

\* C23: the promise is resolved exactly once and never rejected: by the call
\* itself when there is no image or all are complete; otherwise by the first
\* load/error event after which every image is complete or by the timeout,
\* whichever is first; later events and the timer change nothing; while it is
\* pending the timer is armed, and once the timer has fired it is resolved
C23_ResolvedOnceByCallEventOrTimer ==
    /\ [](waitRun.phase = "returned" =>
            /\ waitRun.promise \in {"pending", "fulfilled"}
            /\ waitRun.resolveCalls <= 1
            /\ (waitRun.promise = "pending" <=> waitRun.timer = "armed")
            /\ (waitRun.timer = "fired" => waitRun.at = "timer")
            /\ (waitRun.at = "event" => AllComplete(waitRun) /\ waitRun.timer = "cleared"))
    /\ [][(waitRun.phase = "called" /\ waitRun'.phase = "returned") =>
             ((waitRun'.promise = "fulfilled")
                <=> (Len(waitRun.imgs) = 0 \/ AllComplete(waitRun)))]_vars
    /\ [][waitRun.promise = "fulfilled" =>
             /\ waitRun'.promise = "fulfilled"
             /\ waitRun'.at = waitRun.at
             /\ waitRun'.resolveCalls = waitRun.resolveCalls
             /\ waitRun'.timer = waitRun.timer]_vars
    /\ [][waitRun.promise = "pending" =>
             LET event == \E k \in DOMAIN waitRun.imgs :
                             waitRun.imgs[k] = "queued" /\ waitRun'.imgs[k] = "delivered"
             IN  /\ (event /\ AllComplete(waitRun')) => waitRun'.at = "event"
                 /\ waitRun'.promise = "fulfilled" =>
                      \/ event /\ AllComplete(waitRun')
                      \/ waitRun'.at = "timer" /\ waitRun.timer = "armed"]_vars

\* the timer resolved the promise while an image has not completed and
\* another image's event has been dispatched
C23_Witness ==
    /\ waitRun.phase = "returned"
    /\ waitRun.at = "timer"
    /\ waitRun.resolveCalls = 1
    /\ \E k \in DOMAIN waitRun.imgs : waitRun.imgs[k] = "loading"
    /\ \E k \in DOMAIN waitRun.imgs :
         waitRun.imgs[k] = "delivered" /\ ~waitRun.listeners[k]

----------------------------------------------------------------------------
(* Properties of printing a sticker *)

\* C29: a print request invokes the browser's print exactly once, on the popup
\* path and on the hidden-iframe path, whatever the order of the load event,
\* the script's 700 ms timer and the image-ready wait: never more than one
\* call, and one call once nothing of the request is left to run
C29_PrintInvokedOnce ==
    LET prints == printRun.scriptPrints + printRun.parentPrints
        pending == /\ ~printRun.gone
                   /\ \/ printRun.go30 = "armed" \/ printRun.go700 = "armed"
                      \/ printRun.printTimers > 0
    IN  printRun.phase = "written" =>
            /\ prints <= 1
            /\ (printRun.wait = "resolved" /\ ~pending => prints = 1)

====
